---- MODULE Spec2Model ----
(***************************************************************************)
(* Model of the authentication core of the AgriSense backend:              *)
(*   backend/core/security.py        password rules, JWTs, RateLimiter     *)
(*   backend/api/routes/auth.py      the /auth route handlers              *)
(*   backend/services/auth_service.py  AuthService                         *)
(*   backend/db/database.py          users and user_sessions tables        *)
(* Time is counted in whole seconds.                                       *)
(***************************************************************************)
EXTENDS Integers, Sequences, FiniteSets, TLC

VARIABLES
    now,        \* datetime.utcnow(), in seconds
    requests,   \* RateLimiter._requests: key -> list of admitted timestamps
    users,      \* rows of table users, in insertion order (id = index)
    sessions,   \* rows of table user_sessions, in insertion order (id = index)
    accessOut,  \* access tokens handed to clients so far
    resp,       \* the response of the request served last
    procs,      \* requests in flight in the interleaved specifications
    admitLog,   \* history: key -> every time a rate-limited call was admitted at
    rlLast,     \* history: the outcome of the last is_allowed call
    scen,       \* history: progress through register -> login -> refresh -> logout
    nonce,      \* how many random values (uuid4, token_urlsafe) were drawn so far
    nreq        \* number of requests served so far

vars == <<now, requests, users, sessions, accessOut, resp, procs, admitLog, rlLast, scen, nonce, nreq>>

(***************************************************************************)
(* Program constants                                                       *)
(***************************************************************************)
ACCESS_TOKEN_EXPIRE_MINUTES == 30
REFRESH_TOKEN_EXPIRE_DAYS == 7
PASSWORD_MIN_LENGTH == 8
RegisterLimit == 5
RegisterWindow == 3600
LoginLimit == 10
LoginWindow == 900
ForgotLimit == 5
ForgotWindow == 3600
ResetLimit == 10
ResetWindow == 3600
ResendLimit == 3
ResendWindow == 3600
ResetTokenHours == 1
VerifyTokenHours == 24

None == "None"

(***************************************************************************)
(* RateLimiter (core/security.py)                                          *)
(***************************************************************************)

\* a key that leaves the client address out
RLKeyActionOnly(action, ip) == <<action, "unknown">>

\* f"{action}:{client_ip}"
RLKey(action, ip) == <<action, ip>>

\* max_requests each route passes to is_allowed
RLMax(action) ==
    CASE action = "register" -> RegisterLimit
      [] action = "login" -> LoginLimit
      [] action = "forgot_password" -> ForgotLimit
      [] action = "reset_password" -> ResetLimit
      [] action = "resend_verify" -> ResendLimit

\* window_seconds each route passes to is_allowed
RLWindow(action) ==
    CASE action = "register" -> RegisterWindow
      [] action = "login" -> LoginWindow
      [] action = "forgot_password" -> ForgotWindow
      [] action = "reset_password" -> ResetWindow
      [] action = "resend_verify" -> ResendWindow

\* self._requests[key], [] when the key is new
RLStored(reqs, key) == IF key \in DOMAIN reqs THEN reqs[key] ELSE <<>>

\* a filter that keeps the timestamp lying exactly window_seconds back
InWindowClosed(req_time, t, window_seconds) == req_time >= t - window_seconds

\* a timestamp survives the filter iff req_time > now - window_seconds
InWindow(req_time, t, window_seconds) == req_time > t - window_seconds

\* a faulty filter: nothing is dropped from the list
RLNotPruned(reqs, key, window_seconds, t) == RLStored(reqs, key)

\* the list after "filter to only requests within window"
RLPruned(reqs, key, window_seconds, t) ==
    SelectSeq(RLStored(reqs, key), LAMBDA req_time : InWindow(req_time, t, window_seconds))

\* a faulty admission test: refuses only when len(list) > max_requests
RLAtMostLimit(n, max_requests) == ~(n > max_requests)

\* the admission test: the request is refused iff len(list) >= max_requests
RLUnderLimit(n, max_requests) == ~(n >= max_requests)

\* is_allowed(...)[0]
IsAllowed(reqs, key, max_requests, window_seconds, t) ==
    RLUnderLimit(Len(RLPruned(reqs, key, window_seconds, t)), max_requests)

\* an is_allowed that counts remaining before it appends the current call
IsAllowedRemainingBeforeAppend(reqs, key, max_requests, window_seconds, t) ==
    IF IsAllowed(reqs, key, max_requests, window_seconds, t)
    THEN max_requests - Len(RLPruned(reqs, key, window_seconds, t))
    ELSE 0

\* is_allowed(...)[1]
IsAllowedRemaining(reqs, key, max_requests, window_seconds, t) ==
    IF IsAllowed(reqs, key, max_requests, window_seconds, t)
    THEN max_requests - (Len(RLPruned(reqs, key, window_seconds, t)) + 1)
    ELSE 0

\* an is_allowed that appends the current time before it tests the limit
IsAllowedRequestsAlwaysAppend(reqs, key, max_requests, window_seconds, t) ==
    [k \in DOMAIN reqs \cup {key} |->
        IF k = key THEN Append(RLPruned(reqs, key, window_seconds, t), t) ELSE reqs[k]]

\* self._requests after is_allowed returned
IsAllowedRequests(reqs, key, max_requests, window_seconds, t) ==
    [k \in DOMAIN reqs \cup {key} |->
        IF k = key
        THEN IF IsAllowed(reqs, key, max_requests, window_seconds, t)
             THEN Append(RLPruned(reqs, key, window_seconds, t), t)
             ELSE RLPruned(reqs, key, window_seconds, t)
        ELSE reqs[k]]

\* history of admissions, kept beside the limiter to state the claims about it:
\* like _requests, but nothing is ever dropped from it
LogAdmit(log, reqs, key, max_requests, window_seconds, t) ==
    [k \in DOMAIN log \cup {key} |->
        IF k = key
        THEN IF IsAllowed(reqs, key, max_requests, window_seconds, t)
             THEN Append(IF key \in DOMAIN log THEN log[key] ELSE <<>>, t)
             ELSE (IF key \in DOMAIN log THEN log[key] ELSE <<>>)
        ELSE log[k]]

(***************************************************************************)
(* Passwords (core/security.py)                                            *)
(***************************************************************************)

UpperChars == {"A", "X"}
LowerChars == {"a", "b", "c", "d", "w", "y", "z"}
DigitChars == {"1", "2", "3", "7", "8", "9"}
\* special_chars = "!@#$%^&*()_+-=[]{}|;:,.<>?"
SpecialChars == {"!", "@", "#", "$", "%", "^", "&", "*", "(", ")", "_", "+", "-", "=",
                 "[", "]", "{", "}", "|", ";", ":", ",", ".", "<", ">", "?"}

HasChar(password, class) == \E i \in 1..Len(password) : password[i] \in class

\* a validate_password_strength that looks for the digit before the letters
PasswordErrorDigitFirst(password) ==
    IF Len(password) < PASSWORD_MIN_LENGTH THEN "Password must be at least 8 characters"
    ELSE IF ~HasChar(password, DigitChars) THEN "Password must contain at least one digit"
    ELSE IF ~HasChar(password, UpperChars) THEN "Password must contain at least one uppercase letter"
    ELSE IF ~HasChar(password, LowerChars) THEN "Password must contain at least one lowercase letter"
    ELSE IF ~HasChar(password, SpecialChars) THEN "Password must contain at least one special character"
    ELSE ""

\* validate_password_strength: the first rule violated, "" when none is
PasswordError(password) ==
    IF Len(password) < PASSWORD_MIN_LENGTH THEN "Password must be at least 8 characters"
    ELSE IF ~HasChar(password, UpperChars) THEN "Password must contain at least one uppercase letter"
    ELSE IF ~HasChar(password, LowerChars) THEN "Password must contain at least one lowercase letter"
    ELSE IF ~HasChar(password, DigitChars) THEN "Password must contain at least one digit"
    ELSE IF ~HasChar(password, SpecialChars) THEN "Password must contain at least one special character"
    ELSE ""

\* pwd_context.hash: a one-way image of the password
HashPassword(password) == [scheme |-> "bcrypt", of |-> password]

\* a faulty verify: every password matches
VerifyAnyPassword(plain_password, hashed_password) == TRUE

\* pwd_context.verify
VerifyPassword(plain_password, hashed_password) == hashed_password.of = plain_password

(***************************************************************************)
(* JWTs (core/security.py)                                                 *)
(***************************************************************************)

AccessTtl == ACCESS_TOKEN_EXPIRE_MINUTES * 60
RefreshTtl == REFRESH_TOKEN_EXPIRE_DAYS * 86400

\* a faulty create_access_token: the subject is left out of the payload
CreateAccessTokenNoSub(user_id, email, role, t) ==
    [sig |-> "server", type |-> "access", sub |-> 0, email |-> email, role |-> role,
     exp |-> t + AccessTtl, iat |-> t, jti |-> 0]

\* create_access_token: no jti, so two access tokens of one user and second are equal
CreateAccessToken(user_id, email, role, t) ==
    [sig |-> "server", type |-> "access", sub |-> user_id, email |-> email, role |-> role,
     exp |-> t + AccessTtl, iat |-> t, jti |-> 0]

\* create_refresh_token: jti = secrets.token_urlsafe(32)
CreateRefreshToken(user_id, email, role, t, rnd) ==
    [sig |-> "server", type |-> "refresh", sub |-> user_id, email |-> email, role |-> role,
     exp |-> t + RefreshTtl, iat |-> t, jti |-> rnd]

\* a token not signed with SECRET_KEY
ForgedToken == [sig |-> "other", type |-> "refresh", sub |-> 1, email |-> "a@x.com",
                role |-> "farmer", exp |-> RefreshTtl, iat |-> 0, jti |-> 0]

\* decode_token: the payload, or None on JWTError (bad signature, or exp in the past)
DecodeOk(token, t) == token.sig = "server" /\ ~(token.exp < t)

\* a faulty verify_token: the type discriminator is not compared
VerifyTokenAnyType(token, token_type, t) == DecodeOk(token, t) /\ token.sub # 0

\* verify_token(token, token_type) is not None: the payload decodes, its "type" is the
\* expected one and it names a subject (sub 0 stands for a payload without "sub")
VerifyToken(token, token_type, t) ==
    DecodeOk(token, t) /\ token.type = token_type /\ token.sub # 0

\* the TokenData verify_token returns, None when it returns None
VerifyTokenData(token, token_type, t) ==
    IF VerifyToken(token, token_type, t)
    THEN [user_id |-> token.sub, email |-> token.email, role |-> token.role,
          token_type |-> token_type, exp |-> token.exp]
    ELSE None

\* create_token_pair(user_id, email, role); rnd is the refresh token's random jti
CreateTokenPair(user_id, email, role, t, rnd) ==
    [access_token |-> CreateAccessToken(user_id, email, role, t),
     refresh_token |-> CreateRefreshToken(user_id, email, role, t, rnd),
     token_type |-> "bearer", expires_in |-> AccessTtl]

(***************************************************************************)
(* Tables users and user_sessions (db/database.py) and the statements the  *)
(* handlers run on them.  Every db.execute / db.fetch_one opens its own    *)
(* connection and commits on return.                                       *)
(***************************************************************************)

\* email.lower()
Lower(email) == IF email = "B@x.com" THEN "b@x.com" ELSE email

Ids(table) == 1..Len(table)

\* SELECT ... FROM users WHERE email = ?            (0 when no row)
UserByEmail(us, email) ==
    IF \E i \in Ids(us) : us[i].email = email
    THEN CHOOSE i \in Ids(us) : us[i].email = email /\ \A j \in 1..(i-1) : us[j].email # email
    ELSE 0

\* a faulty lookup: the is_active condition is missing
AnyUserByEmail(us, email) == UserByEmail(us, email)

\* SELECT ... FROM users WHERE email = ? AND is_active = 1
ActiveUserByEmail(us, email) ==
    IF \E i \in Ids(us) : us[i].email = email /\ us[i].is_active = 1
    THEN CHOOSE i \in Ids(us) : /\ us[i].email = email /\ us[i].is_active = 1
                                /\ \A j \in 1..(i-1) : ~(us[j].email = email /\ us[j].is_active = 1)
    ELSE 0

\* a phone lookup that never finds a row
NoUserByPhone(us, phone) == 0

\* SELECT id FROM users WHERE phone = ?
UserByPhone(us, phone) ==
    IF \E i \in Ids(us) : us[i].phone = phone
    THEN CHOOSE i \in Ids(us) : us[i].phone = phone /\ \A j \in 1..(i-1) : us[j].phone # phone
    ELSE 0

\* SELECT * FROM users WHERE id = ? AND is_active = 1
ActiveUserById(us, id) == IF id \in Ids(us) /\ us[id].is_active = 1 THEN id ELSE 0

\* a users table whose email column carries no UNIQUE constraint
EmailNeverTaken(us, email) == FALSE

\* email TEXT UNIQUE NOT NULL: an INSERT of an email some row already holds is refused
EmailTaken(us, email) == \E i \in Ids(us) : us[i].email = email

\* INSERT INTO users (...): is_active and email_verified take their column defaults
InsertUser(us, email, phone, password_hash) ==
    Append(us, [id |-> Len(us) + 1, email |-> email, phone |-> phone,
                password_hash |-> password_hash, is_active |-> 1, email_verified |-> 0])

\* UPDATE users SET password_hash = ? WHERE id = ?
SetPasswordHash(us, id, password_hash) ==
    [us EXCEPT ![id].password_hash = password_hash]

\* a faulty insert: one row per user and purpose, the new token written over the old row
UpsertSession(ss, user_id, refresh_token, device_info, expires_at, t) ==
    IF \E i \in Ids(ss) : ss[i].user_id = user_id /\ ss[i].device_info = device_info
    THEN LET k == CHOOSE i \in Ids(ss) : ss[i].user_id = user_id /\ ss[i].device_info = device_info
         IN [ss EXCEPT ![k] = [id |-> k, user_id |-> user_id, refresh_token |-> refresh_token,
                               device_info |-> device_info, expires_at |-> expires_at,
                               created_at |-> t, is_valid |-> 1]]
    ELSE Append(ss, [id |-> Len(ss) + 1, user_id |-> user_id, refresh_token |-> refresh_token,
                     device_info |-> device_info, expires_at |-> expires_at, created_at |-> t,
                     is_valid |-> 1])

\* INSERT INTO user_sessions (...): is_valid is 1, by default or explicitly
InsertSession(ss, user_id, refresh_token, device_info, expires_at, t) ==
    Append(ss, [id |-> Len(ss) + 1, user_id |-> user_id, refresh_token |-> refresh_token,
                device_info |-> device_info, expires_at |-> expires_at, created_at |-> t,
                is_valid |-> 1])

\* a faulty lookup: the is_valid = 1 condition is missing
FindSessionAnyValidity(ss, refresh_token) ==
    IF \E i \in Ids(ss) : ss[i].refresh_token = refresh_token
    THEN CHOOSE i \in Ids(ss) :
            /\ ss[i].refresh_token = refresh_token
            /\ \A j \in 1..(i-1) : ss[j].refresh_token # refresh_token
    ELSE 0

\* SELECT * FROM user_sessions WHERE refresh_token = ? AND is_valid = 1   (0 when no row)
FindValidSession(ss, refresh_token) ==
    IF \E i \in Ids(ss) : ss[i].refresh_token = refresh_token /\ ss[i].is_valid = 1
    THEN CHOOSE i \in Ids(ss) :
            /\ ss[i].refresh_token = refresh_token /\ ss[i].is_valid = 1
            /\ \A j \in 1..(i-1) : ~(ss[j].refresh_token = refresh_token /\ ss[j].is_valid = 1)
    ELSE 0

\* SELECT s.* FROM user_sessions s JOIN users u ON s.user_id = u.id
\*  WHERE s.refresh_token = ? AND s.is_valid = 1 AND s.device_info = ? [AND u.is_active = 1]
FindPurposeSession(ss, us, secret, device_info, active_only) ==
    LET hit(i) == /\ ss[i].refresh_token = secret /\ ss[i].is_valid = 1
                  /\ ss[i].device_info = device_info
                  /\ ss[i].user_id \in Ids(us)
                  /\ (active_only => us[ss[i].user_id].is_active = 1)
    IN IF \E i \in Ids(ss) : hit(i)
       THEN CHOOSE i \in Ids(ss) : hit(i) /\ \A j \in 1..(i-1) : ~hit(j)
       ELSE 0

\* a faulty update: the WHERE clause matches no row
InvalidateNoRow(ss, id) == ss

\* UPDATE user_sessions SET is_valid = 0 WHERE id = ?
InvalidateSession(ss, id) ==
    [i \in Ids(ss) |-> IF ss[i].id = id THEN [ss[i] EXCEPT !.is_valid = 0] ELSE ss[i]]

\* a faulty bulk update: rows whose device_info is NULL (the refresh sessions) are skipped
InvalidateTaggedForUser(ss, user_id) ==
    [i \in Ids(ss) |->
        IF ss[i].user_id = user_id /\ ss[i].device_info # None
        THEN [ss[i] EXCEPT !.is_valid = 0] ELSE ss[i]]

\* an UPDATE without its WHERE clause: the rows of every user
InvalidateEveryUser(ss, user_id) == [i \in Ids(ss) |-> [ss[i] EXCEPT !.is_valid = 0]]

\* an UPDATE that reaches only the rows of refresh tokens (device_info IS NULL)
InvalidateRefreshForUser(ss, user_id) ==
    [i \in Ids(ss) |->
        IF ss[i].user_id = user_id /\ ss[i].device_info = None
        THEN [ss[i] EXCEPT !.is_valid = 0] ELSE ss[i]]

\* UPDATE user_sessions SET is_valid = 0 WHERE user_id = ?
InvalidateAllForUser(ss, user_id) ==
    [i \in Ids(ss) |-> IF ss[i].user_id = user_id THEN [ss[i] EXCEPT !.is_valid = 0] ELSE ss[i]]

\* UPDATE user_sessions SET is_valid = 0 WHERE user_id = ? AND device_info = ?
InvalidateKindForUser(ss, user_id, device_info) ==
    [i \in Ids(ss) |->
        IF ss[i].user_id = user_id /\ ss[i].device_info = device_info
        THEN [ss[i] EXCEPT !.is_valid = 0] ELSE ss[i]]

\* SQL's  device_info != 'x' : NULL != 'x' is NULL, which WHERE treats as false
SqlNotEqual(column, value) == column # None /\ column # value

\* UPDATE user_sessions SET is_valid = 0 WHERE user_id = ? AND device_info != 'password_reset'
InvalidateOthersForUser(ss, user_id) ==
    [i \in Ids(ss) |->
        IF ss[i].user_id = user_id /\ SqlNotEqual(ss[i].device_info, "password_reset")
        THEN [ss[i] EXCEPT !.is_valid = 0] ELSE ss[i]]

\* the refresh_token column: a refresh JWT as it is (prefix ""), or f"reset:{token}" /
\* f"verify:{token}"
Secret(prefix, token) == [pre |-> prefix, tok |-> token]

(***************************************************************************)
(* Bounds of the model and the inputs the requests are drawn from          *)
(***************************************************************************)
MaxRequests == 4
MaxClock == 1801

Emails == {"a@x.com", "B@x.com"}
Phones == {None}
Ips == {"203.0.113.5"}
PwAbcd == <<"A", "b", "c", "d", "1", "2", "3", "!">>
PwXyzw == <<"X", "y", "z", "w", "9", "8", "7", "#">>
PwWeak == <<"a", "b", "c", "d", "1", "2", "3", "!">>
PwShort == <<"A", "b", "c", "1", "2", "3", "!">>
Role == "farmer"

NoToken == [sig |-> "none", type |-> "none", sub |-> 0, email |-> "", role |-> "",
            exp |-> 0, iat |-> 0, jti |-> 0]

\* the refresh tokens the server has issued: each was stored when it was issued
RefreshTokensOut == {sessions[i].refresh_token.tok : i \in {j \in Ids(sessions) : sessions[j].refresh_token.pre = ""}}

\* the reset and verification tokens the server has mailed
PurposeTokensOut == {sessions[i].refresh_token.tok : i \in {j \in Ids(sessions) : sessions[j].refresh_token.pre # ""}}

Response(op, status, detail, user, token, issued) ==
    [op |-> op, status |-> status, detail |-> detail, user |-> user, token |-> token,
     issued |-> issued]

(***************************************************************************)
(* The scenario register -> login -> refresh -> logout, as consecutive     *)
(* requests of one user.  phase counts the steps done.                     *)
(***************************************************************************)
ScenStep(sc, r) ==
    IF sc.phase = 1 /\ r.op = "login" /\ r.status = 200 /\ r.user = sc.user
    THEN [phase |-> 2, user |-> sc.user, old |-> r.issued, new |-> r.issued]
    ELSE IF sc.phase = 2 /\ r.op = "refresh" /\ r.status = 200 /\ r.token = sc.old
    THEN [phase |-> 3, user |-> sc.user, old |-> sc.old, new |-> r.issued]
    ELSE IF sc.phase = 3 /\ r.op = "logout" /\ r.status = 200 /\ r.user = sc.user
    THEN [phase |-> 4, user |-> sc.user, old |-> sc.old, new |-> sc.new]
    ELSE IF r.op = "register" /\ r.status = 201
    THEN [phase |-> 1, user |-> r.user, old |-> NoToken, new |-> NoToken]
    ELSE [phase |-> 0, user |-> 0, old |-> NoToken, new |-> NoToken]

\* what every handled request does besides its own work
Served(r) ==
    /\ resp' = r
    /\ scen' = ScenStep(scen, r)
    /\ nreq' = nreq + 1

(***************************************************************************)
(* Route handlers (api/routes/auth.py), one request served at a time       *)
(***************************************************************************)

\* a get_current_user that also wants a valid session row of the user
CurrentUserNeedsSession(token, us, t) ==
    IF /\ VerifyToken(token, "access", t)
       /\ \E i \in Ids(sessions) : sessions[i].user_id = token.sub /\ sessions[i].is_valid = 1
    THEN ActiveUserById(us, token.sub) ELSE 0

\* get_current_user: the id of the token's active user, 0 for a 401
CurrentUser(token, us, t) ==
    IF VerifyToken(token, "access", t) THEN ActiveUserById(us, token.sub) ELSE 0

\* get_current_user: the detail of its 401
AuthError(token, us, t) ==
    IF VerifyToken(token, "access", t) THEN "User not found or inactive"
    ELSE "Invalid or expired token"

\* password: str = Field(..., min_length=8) of the request models UserRegister and
\* PasswordChange: a shorter value is refused before the handler is called
SchemaAccepts(password) == Len(password) >= 8

\* POST /auth/register
Register(ip, email, phone, password) ==
    LET key == RLKey("register", ip)
        user_id == Len(users) + 1
        access == CreateAccessToken(user_id, Lower(email), Role, now)
        refresh == CreateRefreshToken(user_id, Lower(email), Role, now, nonce + 1)
    IN
    IF ~SchemaAccepts(password)
    THEN \* user_data: UserRegister does not validate: 422, the handler body never runs
         /\ Served(Response("register", 422, "ensure this value has at least 8 characters", 0, NoToken, NoToken))
         /\ UNCHANGED <<now, procs, rlLast, requests, admitLog, users, sessions, accessOut, nonce>>
    ELSE
    /\ requests' = IsAllowedRequests(requests, key, RegisterLimit, RegisterWindow, now)
    /\ admitLog' = LogAdmit(admitLog, requests, key, RegisterLimit, RegisterWindow, now)
    /\ UNCHANGED <<now, procs, rlLast>>
    /\ IF ~IsAllowed(requests, key, RegisterLimit, RegisterWindow, now)
       THEN /\ Served(Response("register", 429, "Too many registration attempts. Please try again later.", 0, NoToken, NoToken))
            /\ UNCHANGED <<users, sessions, accessOut, nonce>>
       ELSE IF UserByEmail(users, Lower(email)) # 0
       THEN /\ Served(Response("register", 400, "Email already registered", 0, NoToken, NoToken))
            /\ UNCHANGED <<users, sessions, accessOut, nonce>>
       ELSE IF phone # None /\ UserByPhone(users, phone) # 0
       THEN /\ Served(Response("register", 400, "Phone number already registered", 0, NoToken, NoToken))
            /\ UNCHANGED <<users, sessions, accessOut, nonce>>
       ELSE IF PasswordError(password) # ""
       THEN /\ Served(Response("register", 400, PasswordError(password), 0, NoToken, NoToken))
            /\ UNCHANGED <<users, sessions, accessOut, nonce>>
       ELSE /\ users' = InsertUser(users, Lower(email), phone, HashPassword(password))
            /\ sessions' = InsertSession(sessions, user_id, Secret("", refresh), None, now, now)
            /\ accessOut' = accessOut \cup {access}
            /\ nonce' = nonce + 1
            /\ Served(Response("register", 201, "", user_id, NoToken, refresh))

\* POST /auth/login
Login(ip, email, password) ==
    LET key == RLKey("login", ip)
        user == ActiveUserByEmail(users, Lower(email))
        access == CreateAccessToken(user, users[user].email, Role, now)
        refresh == CreateRefreshToken(user, users[user].email, Role, now, nonce + 1)
    IN
    /\ requests' = IsAllowedRequests(requests, key, LoginLimit, LoginWindow, now)
    /\ admitLog' = LogAdmit(admitLog, requests, key, LoginLimit, LoginWindow, now)
    /\ UNCHANGED <<now, procs, rlLast, users>>
    /\ IF ~IsAllowed(requests, key, LoginLimit, LoginWindow, now)
       THEN /\ Served(Response("login", 429, "Too many login attempts. Please try again in 15 minutes.", 0, NoToken, NoToken))
            /\ UNCHANGED <<sessions, accessOut, nonce>>
       ELSE IF user = 0
       THEN /\ Served(Response("login", 401, "Invalid email or password", 0, NoToken, NoToken))
            /\ UNCHANGED <<sessions, accessOut, nonce>>
       ELSE IF ~VerifyPassword(password, users[user].password_hash)
       THEN /\ Served(Response("login", 401, "Invalid email or password", 0, NoToken, NoToken))
            /\ UNCHANGED <<sessions, accessOut, nonce>>
       ELSE /\ sessions' = InsertSession(sessions, user, Secret("", refresh), None, now, now)
            /\ accessOut' = accessOut \cup {access}
            /\ nonce' = nonce + 1
            /\ Served(Response("login", 200, "", user, NoToken, refresh))

\* POST /auth/refresh: what the handler answers to this token in this state
RefreshOutcome(token, us, ss, t) ==
    IF ~VerifyToken(token, "refresh", t) THEN "Invalid or expired refresh token"
    ELSE IF FindValidSession(ss, Secret("", token)) = 0 THEN "Session not found or invalidated"
    ELSE IF ActiveUserById(us, token.sub) = 0 THEN "User not found or inactive"
    ELSE "ok"

\* POST /auth/refresh
Refresh(ip, token) ==
    LET outcome == RefreshOutcome(token, users, sessions, now)
        session == FindValidSession(sessions, Secret("", token))
        user == token.sub
        access == CreateAccessToken(user, users[user].email, Role, now)
        refresh == CreateRefreshToken(user, users[user].email, Role, now, nonce + 1)
    IN
    /\ UNCHANGED <<now, procs, admitLog, rlLast, users, requests>>
    /\ IF outcome \in {"Invalid or expired refresh token", "Session not found or invalidated"}
       THEN /\ Served(Response("refresh", 401, outcome, 0, token, NoToken))
            /\ UNCHANGED <<sessions, accessOut, nonce>>
       ELSE IF outcome = "User not found or inactive"
       THEN \* the old session was invalidated before the user was looked up
            /\ sessions' = InvalidateSession(sessions, session)
            /\ Served(Response("refresh", 401, outcome, 0, token, NoToken))
            /\ UNCHANGED <<accessOut, nonce>>
       ELSE /\ sessions' = InsertSession(InvalidateSession(sessions, session), user,
                                         Secret("", refresh), None, now, now)
            /\ accessOut' = accessOut \cup {access}
            /\ nonce' = nonce + 1
            /\ Served(Response("refresh", 200, "", user, token, refresh))

\* POST /auth/logout
Logout(token) ==
    LET current_user == CurrentUser(token, users, now) IN
    /\ UNCHANGED <<now, procs, admitLog, rlLast, users, requests, accessOut, nonce>>
    /\ IF current_user = 0
       THEN /\ Served(Response("logout", 401, AuthError(token, users, now), 0, token, NoToken))
            /\ UNCHANGED sessions
       ELSE /\ sessions' = InvalidateAllForUser(sessions, current_user)
            /\ Served(Response("logout", 200, "Successfully logged out", current_user, token, NoToken))

\* a change-password that invalidates the sessions before it checks the passwords
ChangePasswordInvalidatesFirst(token, current_password, new_password) ==
    LET current_user == CurrentUser(token, users, now) IN
    /\ UNCHANGED <<now, procs, admitLog, rlLast, requests, accessOut, nonce>>
    /\ IF current_user = 0
       THEN /\ Served(Response("change_password", 401, AuthError(token, users, now), 0, token, NoToken))
            /\ UNCHANGED <<users, sessions>>
       ELSE IF ~VerifyPassword(current_password, users[current_user].password_hash)
       THEN /\ Served(Response("change_password", 400, "Current password is incorrect", current_user, token, NoToken))
            /\ sessions' = InvalidateAllForUser(sessions, current_user)
            /\ UNCHANGED users
       ELSE IF PasswordError(new_password) # ""
       THEN /\ Served(Response("change_password", 400, PasswordError(new_password), current_user, token, NoToken))
            /\ sessions' = InvalidateAllForUser(sessions, current_user)
            /\ UNCHANGED users
       ELSE /\ users' = SetPasswordHash(users, current_user, HashPassword(new_password))
            /\ sessions' = InvalidateAllForUser(sessions, current_user)
            /\ Served(Response("change_password", 200, "Password changed successfully. Please login again.", current_user, token, NoToken))

\* POST /auth/change-password
ChangePassword(token, current_password, new_password) ==
    LET current_user == CurrentUser(token, users, now) IN
    /\ UNCHANGED <<now, procs, admitLog, rlLast, requests, accessOut, nonce>>
    /\ IF current_user = 0
       THEN /\ Served(Response("change_password", 401, AuthError(token, users, now), 0, token, NoToken))
            /\ UNCHANGED <<users, sessions>>
       ELSE IF ~SchemaAccepts(new_password)
       THEN \* password_data: PasswordChange does not validate
            /\ Served(Response("change_password", 422, "ensure this value has at least 8 characters", current_user, token, NoToken))
            /\ UNCHANGED <<users, sessions>>
       ELSE IF ~VerifyPassword(current_password, users[current_user].password_hash)
       THEN /\ Served(Response("change_password", 400, "Current password is incorrect", current_user, token, NoToken))
            /\ UNCHANGED <<users, sessions>>
       ELSE IF PasswordError(new_password) # ""
       THEN /\ Served(Response("change_password", 400, PasswordError(new_password), current_user, token, NoToken))
            /\ UNCHANGED <<users, sessions>>
       ELSE /\ users' = SetPasswordHash(users, current_user, HashPassword(new_password))
            /\ sessions' = InvalidateAllForUser(sessions, current_user)
            /\ Served(Response("change_password", 200, "Password changed successfully. Please login again.", current_user, token, NoToken))

\* DELETE /auth/account
DeleteAccount(token) ==
    LET current_user == CurrentUser(token, users, now) IN
    /\ UNCHANGED <<now, procs, admitLog, rlLast, requests, accessOut, nonce>>
    /\ IF current_user = 0
       THEN /\ Served(Response("delete_account", 401, AuthError(token, users, now), 0, token, NoToken))
            /\ UNCHANGED <<users, sessions>>
       ELSE /\ users' = [users EXCEPT ![current_user].is_active = 0]
            /\ sessions' = InvalidateAllForUser(sessions, current_user)
            /\ Served(Response("delete_account", 200, "Account deleted successfully", current_user, token, NoToken))

\* a faulty expiry test: the token is already refused at expires_at
ExpiredAtOrAfter(t, expires_at) == t >= expires_at

\* a faulty expiry test: nothing ever expires
NeverExpired(t, expires_at) == FALSE

\* datetime.utcnow() > expires_at
Expired(t, expires_at) == t > expires_at

ResetTtl == ResetTokenHours * 3600
VerifyTtl == VerifyTokenHours * 3600

\* POST /auth/forgot-password
ForgotPassword(ip, email) ==
    LET key == RLKey("forgot_password", ip)
        user == ActiveUserByEmail(users, Lower(email))
        reset_token == nonce + 1
    IN
    /\ requests' = IsAllowedRequests(requests, key, ForgotLimit, ForgotWindow, now)
    /\ admitLog' = LogAdmit(admitLog, requests, key, ForgotLimit, ForgotWindow, now)
    /\ UNCHANGED <<now, procs, rlLast, users, accessOut>>
    /\ IF ~IsAllowed(requests, key, ForgotLimit, ForgotWindow, now)
       THEN /\ Served(Response("forgot_password", 429, "Too many password reset attempts. Please try again later.", 0, NoToken, NoToken))
            /\ UNCHANGED <<sessions, nonce>>
       ELSE IF user = 0
       THEN /\ Served(Response("forgot_password", 200, "If this email exists, a password reset link will be sent.", 0, NoToken, NoToken))
            /\ UNCHANGED <<sessions, nonce>>
       ELSE /\ sessions' = InsertSession(sessions, user, Secret("reset", reset_token),
                                         "password_reset", now + ResetTtl, now)
            /\ nonce' = nonce + 1
            /\ Served(Response("forgot_password", 200, "If this email exists, a password reset link will be sent.", 0, NoToken, NoToken))

\* a reset-password that spends the token before it validates the new password
ResetPasswordSpendsToken(ip, token, new_password) ==
    LET key == RLKey("reset_password", ip)
        session == FindPurposeSession(sessions, users, Secret("reset", token), "password_reset", TRUE)
        user == sessions[session].user_id
    IN
    /\ requests' = IsAllowedRequests(requests, key, ResetLimit, ResetWindow, now)
    /\ admitLog' = LogAdmit(admitLog, requests, key, ResetLimit, ResetWindow, now)
    /\ UNCHANGED <<now, procs, rlLast, accessOut, nonce>>
    /\ IF ~IsAllowed(requests, key, ResetLimit, ResetWindow, now)
       THEN /\ Served(Response("reset_password", 429, "Too many reset attempts. Please try again later.", 0, NoToken, NoToken))
            /\ UNCHANGED <<users, sessions>>
       ELSE IF Len(new_password) < 8
       THEN /\ Served(Response("reset_password", 400, "Password must be at least 8 characters", 0, NoToken, NoToken))
            /\ UNCHANGED <<users, sessions>>
       ELSE IF session = 0
       THEN /\ Served(Response("reset_password", 400, "Invalid or expired reset token", 0, NoToken, NoToken))
            /\ UNCHANGED <<users, sessions>>
       ELSE IF Expired(now, sessions[session].expires_at)
       THEN /\ sessions' = InvalidateSession(sessions, session)
            /\ Served(Response("reset_password", 400, "Reset token has expired. Please request a new one.", user, NoToken, NoToken))
            /\ UNCHANGED users
       ELSE IF PasswordError(new_password) # ""
       THEN /\ Served(Response("reset_password", 400, PasswordError(new_password), user, NoToken, NoToken))
            /\ sessions' = InvalidateSession(sessions, session)
            /\ UNCHANGED users
       ELSE /\ users' = SetPasswordHash(users, user, HashPassword(new_password))
            /\ sessions' = InvalidateOthersForUser(InvalidateSession(sessions, session), user)
            /\ Served(Response("reset_password", 200, "Password reset successfully. Please login with your new password.", user, NoToken, NoToken))

\* POST /auth/reset-password   (the body's password is at least 8 characters long here)
ResetPassword(ip, token, new_password) ==
    LET key == RLKey("reset_password", ip)
        session == FindPurposeSession(sessions, users, Secret("reset", token), "password_reset", TRUE)
        user == sessions[session].user_id
    IN
    /\ requests' = IsAllowedRequests(requests, key, ResetLimit, ResetWindow, now)
    /\ admitLog' = LogAdmit(admitLog, requests, key, ResetLimit, ResetWindow, now)
    /\ UNCHANGED <<now, procs, rlLast, accessOut, nonce>>
    /\ IF ~IsAllowed(requests, key, ResetLimit, ResetWindow, now)
       THEN /\ Served(Response("reset_password", 429, "Too many reset attempts. Please try again later.", 0, NoToken, NoToken))
            /\ UNCHANGED <<users, sessions>>
       ELSE IF Len(new_password) < 8
       THEN /\ Served(Response("reset_password", 400, "Password must be at least 8 characters", 0, NoToken, NoToken))
            /\ UNCHANGED <<users, sessions>>
       ELSE IF session = 0
       THEN /\ Served(Response("reset_password", 400, "Invalid or expired reset token", 0, NoToken, NoToken))
            /\ UNCHANGED <<users, sessions>>
       ELSE IF Expired(now, sessions[session].expires_at)
       THEN /\ sessions' = InvalidateSession(sessions, session)
            /\ Served(Response("reset_password", 400, "Reset token has expired. Please request a new one.", user, NoToken, NoToken))
            /\ UNCHANGED users
       ELSE IF PasswordError(new_password) # ""
       THEN /\ Served(Response("reset_password", 400, PasswordError(new_password), user, NoToken, NoToken))
            /\ UNCHANGED <<users, sessions>>
       ELSE /\ users' = SetPasswordHash(users, user, HashPassword(new_password))
            /\ sessions' = InvalidateOthersForUser(InvalidateSession(sessions, session), user)
            /\ Served(Response("reset_password", 200, "Password reset successfully. Please login with your new password.", user, NoToken, NoToken))

\* POST /auth/verify-email
VerifyEmail(token) ==
    LET session == FindPurposeSession(sessions, users, Secret("verify", token), "email_verification", FALSE)
        user == sessions[session].user_id
    IN
    /\ UNCHANGED <<now, procs, admitLog, rlLast, requests, accessOut, nonce>>
    /\ IF session = 0
       THEN /\ Served(Response("verify_email", 400, "Invalid or expired verification token", 0, NoToken, NoToken))
            /\ UNCHANGED <<users, sessions>>
       ELSE IF Expired(now, sessions[session].expires_at)
       THEN /\ sessions' = InvalidateSession(sessions, session)
            /\ Served(Response("verify_email", 400, "Verification token has expired. Please request a new one.", user, NoToken, NoToken))
            /\ UNCHANGED users
       ELSE /\ users' = [users EXCEPT ![user].email_verified = 1]
            /\ sessions' = InvalidateSession(sessions, session)
            /\ Served(Response("verify_email", 200, "Email verified successfully!", user, NoToken, NoToken))

\* POST /auth/resend-verification
ResendVerification(ip, token) ==
    LET key == RLKey("resend_verify", ip)
        current_user == CurrentUser(token, users, now)
        verify_token == nonce + 1
    IN
    /\ UNCHANGED <<now, procs, rlLast, users, accessOut>>
    /\ IF current_user = 0
       THEN /\ Served(Response("resend_verification", 401, AuthError(token, users, now), 0, token, NoToken))
            /\ UNCHANGED <<sessions, requests, admitLog, nonce>>
       ELSE /\ requests' = IsAllowedRequests(requests, key, ResendLimit, ResendWindow, now)
            /\ admitLog' = LogAdmit(admitLog, requests, key, ResendLimit, ResendWindow, now)
            /\ IF ~IsAllowed(requests, key, ResendLimit, ResendWindow, now)
               THEN /\ Served(Response("resend_verification", 429, "Too many verification requests. Please try again later.", current_user, token, NoToken))
                    /\ UNCHANGED <<sessions, nonce>>
               ELSE IF users[current_user].email_verified = 1
               THEN /\ Served(Response("resend_verification", 200, "Email is already verified.", current_user, token, NoToken))
                    /\ UNCHANGED <<sessions, nonce>>
               ELSE /\ sessions' = InsertSession(
                                     InvalidateKindForUser(sessions, current_user, "email_verification"),
                                     current_user, Secret("verify", verify_token),
                                     "email_verification", now + VerifyTtl, now)
                    /\ nonce' = nonce + 1
                    /\ Served(Response("resend_verification", 200, "Verification email sent. Please check your inbox.", current_user, token, NoToken))

\* time passes between requests
Tick(d, limit) ==
    /\ now + d <= limit
    /\ now' = now + d
    /\ UNCHANGED <<requests, users, sessions, accessOut, resp, procs, admitLog, rlLast, scen, nonce, nreq>>

(***************************************************************************)
(* SpecSeq: the handlers, one request at a time                            *)
(***************************************************************************)
NoResponse == Response("none", 0, "", 0, NoToken, NoToken)
NoScen == [phase |-> 0, user |-> 0, old |-> NoToken, new |-> NoToken]
NoCall == [key |-> <<"none", "">>, allowed |-> FALSE, remaining |-> 0, at |-> 0]

\* the request handlers that may run side by side, and one that serves nothing yet
Procs == {1, 2}
IdleProc == [op |-> "idle", pc |-> "idle", token |-> NoToken, session |-> 0, user |-> 0,
             verified |-> 0, status |-> 0, detail |-> "", issued |-> NoToken,
             at |-> 0, kept |-> <<>>, password |-> <<>>, key |-> <<"none", "">>,
             email |-> ""]

Init ==
    /\ now = 0
    /\ requests = <<>>
    /\ users = <<>>
    /\ sessions = <<>>
    /\ accessOut = {}
    /\ resp = NoResponse
    /\ procs = [p \in Procs |-> IdleProc]
    /\ admitLog = <<>>
    /\ rlLast = NoCall
    /\ scen = NoScen
    /\ nonce = 0
    /\ nreq = 0

SeqTicks == {1801}
AccessInputs == accessOut \cup {ForgedToken}
RefreshInputs == RefreshTokensOut \cup {ForgedToken}
PurposeInputs == PurposeTokensOut \cup {0}

NextSeq ==
    \/ \E ip \in Ips, email \in Emails, phone \in Phones, password \in {PwAbcd, PwWeak} :
          nreq < MaxRequests /\ Register(ip, email, phone, password)
    \/ \E ip \in Ips, email \in Emails, password \in {PwAbcd, PwXyzw} :
          nreq < MaxRequests /\ Login(ip, email, password)
    \/ \E ip \in Ips, token \in RefreshInputs : nreq < MaxRequests /\ Refresh(ip, token)
    \/ \E token \in AccessInputs : nreq < MaxRequests /\ Logout(token)
    \/ \E token \in AccessInputs, cur \in {PwAbcd, PwXyzw}, new \in {PwXyzw, PwWeak, PwShort} :
          nreq < MaxRequests /\ ChangePassword(token, cur, new)
    \/ \E token \in AccessInputs : nreq < MaxRequests /\ DeleteAccount(token)
    \/ \E ip \in Ips, email \in Emails : nreq < MaxRequests /\ ForgotPassword(ip, email)
    \/ \E ip \in Ips, token \in PurposeInputs, new \in {PwXyzw, PwWeak, PwShort} :
          nreq < MaxRequests /\ ResetPassword(ip, token, new)
    \/ \E token \in PurposeInputs : nreq < MaxRequests /\ VerifyEmail(token)
    \/ \E ip \in Ips, token \in AccessInputs : nreq < MaxRequests /\ ResendVerification(ip, token)
    \/ \E d \in SeqTicks : Tick(d, MaxClock)

SpecSeq == Init /\ [][NextSeq]_vars

(***************************************************************************)
(* Properties of the session ledger, one request at a time (SpecSeq)       *)
(***************************************************************************)

\* the ledger holds a valid row whose refresh_token column is this token
HasValidRecord(ss, token) ==
    \E i \in Ids(ss) : ss[i].refresh_token = Secret("", token) /\ ss[i].is_valid = 1

HasRecord(ss, token) == \E i \in Ids(ss) : ss[i].refresh_token = Secret("", token)

\* a refresh token signed by the server and not expired at time t
WellSigned(token, t) == token.sig = "server" /\ token.type = "refresh" /\ token.exp >= t

\* the refresh tokens ever issued to user u
TokensOf(u) ==
    {sessions[i].refresh_token.tok :
        i \in {j \in Ids(sessions) : sessions[j].user_id = u /\ sessions[j].refresh_token.pre = ""}}

\* C2: a refresh succeeds only if the ledger held a valid record of the presented token
\* at lookup time, and it leaves no valid record of it (the token is spent); a well
\* signed, unexpired token without a valid record gets 'Session not found or invalidated'.
C2_RefreshNeedsValidRecord ==
    [][ (resp'.op = "refresh" /\ nreq' = nreq + 1) =>
          /\ resp'.status = 200 =>
                /\ HasValidRecord(sessions, resp'.token)
                /\ ~HasValidRecord(sessions', resp'.token)
                /\ ~HasRecord(sessions, resp'.issued)
          /\ (WellSigned(resp'.token, now) /\ ~HasValidRecord(sessions, resp'.token)) =>
                /\ resp'.status = 401
                /\ resp'.detail = "Session not found or invalidated"
                /\ sessions' = sessions ]_vars

\* a refresh with a well signed token whose record was invalidated has just been refused
C2_Witness ==
    /\ resp.op = "refresh" /\ resp.status = 401
    /\ resp.detail = "Session not found or invalidated"
    /\ WellSigned(resp.token, now)
    /\ HasRecord(sessions, resp.token)

\* C3: in register -> login -> refresh -> logout, the login's token is refused once it
\* was exchanged, and after the logout every refresh token of the user, the newest
\* included, is refused and the user has no valid session record.
C3_ScenarioTokensRejected ==
    /\ scen.phase = 3 =>
          RefreshOutcome(scen.old, users, sessions, now) = "Session not found or invalidated"
    /\ scen.phase = 4 =>
          /\ {scen.old, scen.new} \subseteq TokensOf(scen.user)
          /\ \A t \in TokensOf(scen.user) :
                RefreshOutcome(t, users, sessions, now) = "Session not found or invalidated"
          /\ \A i \in Ids(sessions) : sessions[i].user_id = scen.user => sessions[i].is_valid = 0
    /\ (resp.op = "logout" /\ resp.status = 200) =>
          \A i \in Ids(sessions) : sessions[i].user_id = resp.user => sessions[i].is_valid = 0

\* the four requests of the scenario were served, the logout last
C3_Witness ==
    /\ scen.phase = 4 /\ resp.op = "logout" /\ scen.old # scen.new
    /\ users[scen.user].email = "a@x.com"
    /\ VerifyPassword(PwAbcd, users[scen.user].password_hash)

\* the active users registered under an email address
ActiveWithEmail(email) ==
    {i \in Ids(users) : users[i].email = Lower(email) /\ users[i].is_active = 1}

\* C14: a login that passes the rate limit for an email without an active user, and one
\* for an active user with a wrong password, get the same answer, 401 'Invalid email or
\* password', and change no user or session record.
C14_LoginFailuresAlike ==
    [][ \A ip \in Ips, email \in Emails, password \in {PwAbcd, PwXyzw} :
          (/\ Login(ip, email, password)
           /\ IsAllowed(requests, RLKey("login", ip), LoginLimit, LoginWindow, now)
           /\ \/ ActiveWithEmail(email) = {}
              \/ \E i \in ActiveWithEmail(email) : users[i].password_hash # HashPassword(password))
          => /\ resp' = Response("login", 401, "Invalid email or password", 0, NoToken, NoToken)
             /\ UNCHANGED <<users, sessions, accessOut>> ]_vars

\* every address has an active user, and a login was refused: its password was wrong
C14_Witness ==
    /\ resp.op = "login" /\ resp.status = 401 /\ resp.detail = "Invalid email or password"
    /\ \A email \in Emails : ActiveWithEmail(email) # {}

\* C15: a forgot-password request that passes the rate limit gets the same success
\* response whether or not the email has an active user, and it adds a valid
\* PASSWORD_RESET row, for that user, exactly when the email has an active user.
C15_ForgotPasswordAlike ==
    [][ \A ip \in Ips, email \in Emails :
          (/\ ForgotPassword(ip, email)
           /\ IsAllowed(requests, RLKey("forgot_password", ip), ForgotLimit, ForgotWindow, now))
          => /\ resp' = Response("forgot_password", 200,
                                 "If this email exists, a password reset link will be sent.",
                                 0, NoToken, NoToken)
             /\ users' = users
             /\ ActiveWithEmail(email) = {} => sessions' = sessions
             /\ ActiveWithEmail(email) # {} =>
                   /\ Len(sessions') = Len(sessions) + 1
                   /\ SubSeq(sessions', 1, Len(sessions)) = sessions
                   /\ sessions'[Len(sessions')].device_info = "password_reset"
                   /\ sessions'[Len(sessions')].is_valid = 1
                   /\ sessions'[Len(sessions')].user_id \in ActiveWithEmail(email) ]_vars

\* one registered user; of two admitted forgot-password requests one created a reset row
C15_Witness ==
    /\ resp.op = "forgot_password" /\ resp.status = 200
    /\ Len(users) = 1 /\ nreq = 3
    /\ RLKey("forgot_password", "203.0.113.5") \in DOMAIN admitLog
    /\ Len(admitLog[RLKey("forgot_password", "203.0.113.5")]) = 2
    /\ Cardinality({i \in Ids(sessions) : sessions[i].device_info = "password_reset"}) = 1

\* C16: a refresh is accepted only while now < expires_at of the row holding the
\* presented token; a valid row past its expires_at is refused.
C16_RefreshOnlyBeforeExpiry ==
    [][ (resp'.op = "refresh" /\ nreq' = nreq + 1 /\ resp'.status = 200) =>
          \E i \in Ids(sessions) :
              /\ sessions[i].refresh_token = Secret("", resp'.token)
              /\ sessions[i].is_valid = 1
              /\ now < sessions[i].expires_at ]_vars

\* the lifetime the specification gives each kind of row, in seconds
LifetimeOfKind(device_info) ==
    CASE device_info = "password_reset" -> ResetTtl
      [] device_info = "email_verification" -> VerifyTtl
      [] OTHER -> RefreshTtl

\* C17: every session row expires its kind's lifetime after it was created: 7 days for
\* REFRESH, 1 hour for PASSWORD_RESET, 24 hours for EMAIL_VERIFICATION.
C17_ExpiresAtIsLifetime ==
    \A i \in Ids(sessions) :
        sessions[i].expires_at = sessions[i].created_at + LifetimeOfKind(sessions[i].device_info)

\* the valid rows of one purpose a user holds
ValidOfKind(u, device_info) ==
    {i \in Ids(sessions) : /\ sessions[i].user_id = u /\ sessions[i].device_info = device_info
                           /\ sessions[i].is_valid = 1}

\* C4: each user has at most one valid PASSWORD_RESET record.
C4_OneValidResetRecord ==
    \A u \in Ids(users) : Cardinality(ValidOfKind(u, "password_reset")) <= 1

\* C6: after a successful reset-password of user U every REFRESH record of U is invalid
\* and every refresh token of U is refused.
C6_ResetInvalidatesRefresh ==
    (resp.op = "reset_password" /\ resp.status = 200) =>
        /\ \A i \in Ids(sessions) :
              (sessions[i].user_id = resp.user /\ sessions[i].refresh_token.pre = "")
                 => sessions[i].is_valid = 0
        /\ \A t \in TokensOf(resp.user) : RefreshOutcome(t, users, sessions, now) # "ok"

\* C7: after a successful change-password of user U every session record of U is
\* invalid and every refresh token of U is refused.
C7_ChangePasswordInvalidatesAll ==
    (resp.op = "change_password" /\ resp.status = 200) =>
        /\ \A i \in Ids(sessions) : sessions[i].user_id = resp.user => sessions[i].is_valid = 0
        /\ \A t \in TokensOf(resp.user) : RefreshOutcome(t, users, sessions, now) # "ok"

\* a password was changed for a user holding a refresh session and another record
C7_Witness ==
    /\ resp.op = "change_password" /\ resp.status = 200
    /\ Cardinality({i \in Ids(sessions) : sessions[i].user_id = resp.user}) >= 2
    /\ TokensOf(resp.user) # {}

\* C8: no step changes is_valid of an existing session record from 0 to 1; rows are
\* never removed or rewritten, new validity only comes with new rows.
C8_NeverResurrected ==
    [][ \A i \in Ids(sessions) :
          /\ i \in Ids(sessions')
          /\ sessions'[i].id = sessions[i].id
          /\ sessions'[i].user_id = sessions[i].user_id
          /\ sessions'[i].refresh_token = sessions[i].refresh_token
          /\ sessions[i].is_valid = 0 => sessions'[i].is_valid = 0 ]_vars

\* a user holds an invalidated record and a newer valid one of the same purpose
C8_Witness ==
    \E i, j \in Ids(sessions) :
        /\ i < j /\ sessions[i].user_id = sessions[j].user_id
        /\ sessions[i].device_info = sessions[j].device_info
        /\ sessions[i].is_valid = 0 /\ sessions[j].is_valid = 1

(***************************************************************************)
(* SpecRL: RateLimiter.is_allowed called again and again on one key, each  *)
(* call some seconds after the one before                                  *)
(***************************************************************************)
MaxCalls == 8
RLGaps == {0, 1, 3599, 3600}
RLActions == {"register"}

\* rate_limiter.is_allowed(f"{action}:{ip}", max_requests, window_seconds), gap seconds
\* after the previous call
RLCall(action, ip, gap) ==
    LET key == RLKey(action, ip)
        t == now + gap
    IN
    /\ nreq < MaxCalls
    /\ now' = t
    /\ requests' = IsAllowedRequests(requests, key, RLMax(action), RLWindow(action), t)
    /\ admitLog' = LogAdmit(admitLog, requests, key, RLMax(action), RLWindow(action), t)
    /\ rlLast' = [key |-> key,
                  allowed |-> IsAllowed(requests, key, RLMax(action), RLWindow(action), t),
                  remaining |-> IsAllowedRemaining(requests, key, RLMax(action), RLWindow(action), t),
                  at |-> t]
    /\ nreq' = nreq + 1
    /\ UNCHANGED <<users, sessions, accessOut, resp, procs, scen, nonce>>

NextRL == \E action \in RLActions, ip \in Ips, gap \in RLGaps : RLCall(action, ip, gap)

SpecRL == Init /\ [][NextRL]_vars

\* how many calls on key were admitted in the window_seconds ending at t: (t - w, t]
AdmittedIn(key, t, window_seconds) ==
    IF key \in DOMAIN admitLog
    THEN Cardinality({i \in 1..Len(admitLog[key]) :
                        admitLog[key][i] > t - window_seconds /\ admitLog[key][i] <= t})
    ELSE 0

\* C9: with max_requests = 5 and window_seconds = 3600, no rolling 3600-second window
\* holds more than 5 admitted calls of one key; a call is refused exactly when 5
\* admitted calls lie in the window ending at it, so it is admitted again as soon as
\* the oldest of them has left the window.
C9_SlidingWindow ==
    LET key == RLKey("register", "203.0.113.5")
        ends == {now} \cup (IF key \in DOMAIN admitLog
                            THEN {admitLog[key][i] : i \in 1..Len(admitLog[key])} ELSE {})
        before == AdmittedIn(key, rlLast.at, 3600) - (IF rlLast.allowed THEN 1 ELSE 0)
    IN
    /\ RegisterLimit = 5 /\ RegisterWindow = 3600
    /\ \A t \in ends : AdmittedIn(key, t, 3600) <= 5
    /\ rlLast.key = key => (rlLast.allowed <=> before < 5)

\* five calls were admitted, a call was refused, and the next one was admitted once the
\* oldest admission had left the window
C9_Witness ==
    LET key == RLKey("register", "203.0.113.5") IN
    /\ rlLast.key = key /\ rlLast.allowed
    /\ Len(admitLog[key]) = 6 /\ nreq >= 7
    /\ admitLog[key][1] = rlLast.at - 3600

(***************************************************************************)
(* SpecLogin: login requests from one client IP against one registered     *)
(* user.  It starts in the state the first served request, a registration  *)
(* of a@x.com with Abcd123!, leaves; nreq counts the login requests.       *)
(***************************************************************************)
MaxLogins == 11
MaxLoginClock == 900
LoginTicks == {899, 900}

RegisteredRefresh == CreateRefreshToken(1, "a@x.com", Role, 0, 1)
RegisteredAccess == CreateAccessToken(1, "a@x.com", Role, 0)

InitRegistered ==
    /\ now = 0
    /\ requests = IsAllowedRequests(<<>>, RLKey("register", "203.0.113.5"), RegisterLimit, RegisterWindow, 0)
    /\ users = InsertUser(<<>>, "a@x.com", None, HashPassword(PwAbcd))
    /\ sessions = InsertSession(<<>>, 1, Secret("", RegisteredRefresh), None, 0, 0)
    /\ accessOut = {RegisteredAccess}
    /\ resp = Response("register", 201, "", 1, NoToken, RegisteredRefresh)
    /\ procs = [p \in Procs |-> IdleProc]
    /\ admitLog = LogAdmit(<<>>, <<>>, RLKey("register", "203.0.113.5"), RegisterLimit, RegisterWindow, 0)
    /\ rlLast = NoCall
    /\ scen = ScenStep(NoScen, Response("register", 201, "", 1, NoToken, RegisteredRefresh))
    /\ nonce = 1
    /\ nreq = 0

NextLogin ==
    \/ \E ip \in Ips, email \in {"a@x.com"}, password \in {PwAbcd, PwXyzw} :
          nreq < MaxLogins /\ Login(ip, email, password)
    \/ \E d \in LoginTicks : Tick(d, MaxLoginClock)

SpecLogin == InitRegistered /\ [][NextLogin]_vars

LoginKey == RLKey("login", "203.0.113.5")

\* C10 as stated: the 6th login request of one IP within 15 minutes is answered 429,
\* whatever its credentials and whatever became of the five before it.
C10_SixthLoginRejected ==
    (resp.op = "login" /\ nreq >= 6 /\ now < LoginWindow) => resp.status = 429

\* C10 as the code has it (limit 10): a login request is answered 429 exactly when 10
\* login requests of its IP were admitted in the 900 seconds ending at it, the
\* credentials are not looked at then, and no user or session record changes.
C10_LoginLimitedAtTen ==
    [][ (resp'.op = "login" /\ nreq' = nreq + 1) =>
          /\ resp'.status = 429 <=> AdmittedIn(LoginKey, now, LoginWindow) >= 10
          /\ resp'.status = 429 => UNCHANGED <<users, sessions, accessOut>>
          /\ (nreq' = 11 /\ now < LoginWindow) => resp'.status = 429
          /\ (nreq' = 6 /\ now < LoginWindow) => resp'.status # 429 ]_vars

\* the 11th login request within 15 minutes was refused although its password is
\* right, after earlier attempts that succeeded and attempts that failed
C10_Witness ==
    /\ resp.op = "login" /\ resp.status = 429 /\ nreq = 11 /\ now < LoginWindow
    /\ Len(sessions) > 3 /\ Len(sessions) < 9

(***************************************************************************)
(* SpecConc: requests served side by side.  Each db.fetch_one / db.execute *)
(* of a handler is one step: it runs on a connection of its own and is     *)
(* committed when it returns, and nothing holds a lock from one statement  *)
(* of a handler to the next.  Handlers of different requests interleave    *)
(* between statements when the server runs more than one worker            *)
(* (uvicorn.run(workers=settings.WORKERS)) on the one database.            *)
(***************************************************************************)
MaxConcRequests == 3

Free(p) == procs[p].pc \in {"idle", "done"}

Finish(p, op, token, status, detail, user, issued) ==
    procs' = [procs EXCEPT ![p] = [IdleProc EXCEPT !.op = op, !.pc = "done", !.token = token,
                                                   !.user = user, !.status = status,
                                                   !.detail = detail, !.issued = issued]]

\* /auth/refresh, first statement: verify_token, then SELECT the valid session
RefreshLookup(p, token) ==
    LET session == FindValidSession(sessions, Secret("", token)) IN
    /\ Free(p) /\ nreq < MaxConcRequests
    /\ nreq' = nreq + 1
    /\ IF ~VerifyToken(token, "refresh", now)
       THEN Finish(p, "refresh", token, 401, "Invalid or expired refresh token", 0, NoToken)
       ELSE IF session = 0
       THEN Finish(p, "refresh", token, 401, "Session not found or invalidated", 0, NoToken)
       ELSE procs' = [procs EXCEPT ![p] = [IdleProc EXCEPT !.op = "refresh", !.pc = "invalidate",
                                                           !.token = token, !.session = session]]
    /\ UNCHANGED <<now, requests, users, sessions, accessOut, resp, admitLog, rlLast, scen, nonce>>

\* /auth/refresh, second statement: UPDATE user_sessions SET is_valid = 0 WHERE id = ?
RefreshInvalidate(p) ==
    /\ procs[p].op = "refresh" /\ procs[p].pc = "invalidate"
    /\ sessions' = InvalidateSession(sessions, procs[p].session)
    /\ procs' = [procs EXCEPT ![p].pc = "get_user"]
    /\ UNCHANGED <<now, requests, users, accessOut, resp, admitLog, rlLast, scen, nonce, nreq>>

\* /auth/refresh, third statement: SELECT the active user
RefreshGetUser(p) ==
    LET user == ActiveUserById(users, procs[p].token.sub) IN
    /\ procs[p].op = "refresh" /\ procs[p].pc = "get_user"
    /\ IF user = 0
       THEN Finish(p, "refresh", procs[p].token, 401, "User not found or inactive", 0, NoToken)
       ELSE procs' = [procs EXCEPT ![p].pc = "insert", ![p].user = user]
    /\ UNCHANGED <<now, requests, users, sessions, accessOut, resp, admitLog, rlLast, scen, nonce, nreq>>

\* /auth/refresh, last statement: create_token_pair, then INSERT the new session
RefreshInsert(p) ==
    LET user == procs[p].user
        access == CreateAccessToken(user, users[user].email, Role, now)
        refresh == CreateRefreshToken(user, users[user].email, Role, now, nonce + 1)
    IN
    /\ procs[p].op = "refresh" /\ procs[p].pc = "insert"
    /\ sessions' = InsertSession(sessions, user, Secret("", refresh), None, now, now)
    /\ accessOut' = accessOut \cup {access}
    /\ nonce' = nonce + 1
    /\ procs' = [procs EXCEPT ![p].pc = "done", ![p].status = 200, ![p].issued = refresh]
    /\ UNCHANGED <<now, requests, users, resp, admitLog, rlLast, scen, nreq>>

\* /auth/resend-verification, the dependency get_current_user: verify_token, SELECT the user
ResendAuth(p, token) ==
    LET current_user == CurrentUser(token, users, now) IN
    /\ Free(p) /\ nreq < MaxConcRequests
    /\ nreq' = nreq + 1
    /\ IF current_user = 0
       THEN Finish(p, "resend_verification", token, 401, AuthError(token, users, now), 0, NoToken)
       ELSE procs' = [procs EXCEPT ![p] = [IdleProc EXCEPT !.op = "resend_verification",
                                              !.pc = "limit", !.token = token, !.user = current_user,
                                              !.verified = users[current_user].email_verified]]
    /\ UNCHANGED <<now, requests, users, sessions, accessOut, resp, admitLog, rlLast, scen, nonce>>

\* /auth/resend-verification: is_allowed, then the email_verified flag read with the user
ResendLimitCheck(p, ip) ==
    LET key == RLKey("resend_verify", ip) IN
    /\ procs[p].op = "resend_verification" /\ procs[p].pc = "limit"
    /\ requests' = IsAllowedRequests(requests, key, ResendLimit, ResendWindow, now)
    /\ admitLog' = LogAdmit(admitLog, requests, key, ResendLimit, ResendWindow, now)
    /\ IF ~IsAllowed(requests, key, ResendLimit, ResendWindow, now)
       THEN Finish(p, "resend_verification", procs[p].token, 429,
                   "Too many verification requests. Please try again later.", procs[p].user, NoToken)
       ELSE IF procs[p].verified = 1
       THEN Finish(p, "resend_verification", procs[p].token, 200, "Email is already verified.",
                   procs[p].user, NoToken)
       ELSE procs' = [procs EXCEPT ![p].pc = "invalidate_old"]
    /\ UNCHANGED <<now, users, sessions, accessOut, resp, rlLast, scen, nonce, nreq>>

\* /auth/resend-verification: UPDATE ... SET is_valid = 0 WHERE user_id = ? AND device_info = ...
ResendInvalidateOld(p) ==
    /\ procs[p].op = "resend_verification" /\ procs[p].pc = "invalidate_old"
    /\ sessions' = InvalidateKindForUser(sessions, procs[p].user, "email_verification")
    /\ procs' = [procs EXCEPT ![p].pc = "insert"]
    /\ UNCHANGED <<now, requests, users, accessOut, resp, admitLog, rlLast, scen, nonce, nreq>>

\* /auth/resend-verification: INSERT the new verification record
ResendInsert(p) ==
    /\ procs[p].op = "resend_verification" /\ procs[p].pc = "insert"
    /\ sessions' = InsertSession(sessions, procs[p].user, Secret("verify", nonce + 1),
                                 "email_verification", now + VerifyTtl, now)
    /\ nonce' = nonce + 1
    /\ Finish(p, "resend_verification", procs[p].token, 200,
              "Verification email sent. Please check your inbox.", procs[p].user, NoToken)
    /\ UNCHANGED <<now, requests, users, accessOut, resp, admitLog, rlLast, scen, nreq>>

\* /auth/refresh given up between two statements: the next statement raises (the store is
\* unreachable, get_connection rolls that statement back and re-raises) or the worker
\* stops.  What earlier statements committed stays committed.
RefreshFail(p) ==
    /\ procs[p].op = "refresh" /\ procs[p].pc \in {"invalidate", "get_user", "insert"}
    /\ procs' = [procs EXCEPT ![p].pc = "done", ![p].status = 500, ![p].detail = procs[p].pc]
    /\ UNCHANGED <<now, requests, users, sessions, accessOut, resp, admitLog, rlLast, scen, nonce, nreq>>

NextConc ==
    \/ \E p \in Procs, token \in RefreshInputs : RefreshLookup(p, token)
    \/ \E p \in Procs : RefreshInvalidate(p)
    \/ \E p \in Procs : RefreshGetUser(p)
    \/ \E p \in Procs : RefreshInsert(p)
    \/ \E p \in Procs : RefreshFail(p)
    \/ \E p \in Procs, token \in AccessInputs : ResendAuth(p, token)
    \/ \E p \in Procs, ip \in Ips : ResendLimitCheck(p, ip)
    \/ \E p \in Procs : ResendInvalidateOld(p)
    \/ \E p \in Procs : ResendInsert(p)

SpecConc == InitRegistered /\ [][NextConc]_vars

\* C1: of two refresh requests presenting the same valid refresh token side by side,
\* exactly one succeeds and the other gets 'Session not found or invalidated'; once one
\* has succeeded the ledger holds no valid record of that token.
C1_OneRotationWins ==
    \A p, q \in Procs :
        (/\ p # q
         /\ procs[p].op = "refresh" /\ procs[p].pc = "done"
         /\ procs[q].op = "refresh" /\ procs[q].pc = "done"
         /\ procs[p].token = procs[q].token
         /\ procs[p].status = 200)
        => /\ procs[q].status = 401
           /\ procs[q].detail = "Session not found or invalidated"
           /\ ~HasValidRecord(sessions, procs[p].token)

\* C5: a user never holds two valid EMAIL_VERIFICATION records, however the statements
\* of resend-verification requests interleave.
C5_OneValidVerificationRecord ==
    \A u \in Ids(users) : Cardinality(ValidOfKind(u, "email_verification")) <= 1

\* the REFRESH rows of user u inserted after row i
RefreshRowsAfter(u, i) ==
    {j \in Ids(sessions) : j > i /\ sessions[j].user_id = u /\ sessions[j].refresh_token.pre = ""}

\* C12: a refresh that stops between its statements never leaves the row it invalidated
\* without a replacement REFRESH row committed for the same user.
C12_RotationAllOrNothing ==
    \A p \in Procs :
        (/\ procs[p].op = "refresh" /\ procs[p].pc = "done" /\ procs[p].status = 500
         /\ procs[p].detail \in {"get_user", "insert"})
        => RefreshRowsAfter(sessions[procs[p].session].user_id, procs[p].session) # {}

\* the row holding a refresh token, 0 when there is none
RowOfToken(token) ==
    IF \E i \in Ids(sessions) : sessions[i].refresh_token = Secret("", token)
    THEN CHOOSE i \in Ids(sessions) : sessions[i].refresh_token = Secret("", token)
    ELSE 0

\* C13: at every step of a refresh, the row being rotated and the row created to replace
\* it are never valid together.
C13_OldAndNewNeverBothValid ==
    \A p \in Procs :
        (procs[p].op = "refresh" /\ procs[p].session # 0) =>
            ~(/\ sessions[procs[p].session].is_valid = 1
              /\ RowOfToken(procs[p].issued) # 0
              /\ sessions[RowOfToken(procs[p].issued)].is_valid = 1)

\* a refresh has completed: its replacement row is valid and the rotated row is not
C13_Witness ==
    \E p \in Procs :
        /\ procs[p].op = "refresh" /\ procs[p].pc = "done" /\ procs[p].status = 200
        /\ procs[p].session # 0 /\ RowOfToken(procs[p].issued) > procs[p].session
        /\ sessions[RowOfToken(procs[p].issued)].is_valid = 1
        /\ sessions[procs[p].session].is_valid = 0

(***************************************************************************)
(* SpecRLConc: is_allowed entered by two callers at once on the one        *)
(* RateLimiter object.  The method takes no lock, so each statement of it  *)
(* that reads or writes self._requests is a step of its own; the list      *)
(* comprehension builds its result before the result is stored.            *)
(***************************************************************************)
MaxRLConcCalls == 5
MaxRLConcClock == 3600
RLConcTicks == {3600}
RLConcActions == {"resend_verify"}

\* now = datetime.utcnow(); if key not in self._requests: self._requests[key] = []
RLBegin(p, action, ip) ==
    LET key == RLKey(action, ip) IN
    /\ Free(p) /\ nreq < MaxRLConcCalls
    /\ nreq' = nreq + 1
    /\ requests' = [k \in DOMAIN requests \cup {key} |-> RLStored(requests, k)]
    /\ procs' = [procs EXCEPT ![p] = [IdleProc EXCEPT !.op = action, !.pc = "filter",
                                                       !.key = key, !.at = now]]
    /\ UNCHANGED <<now, users, sessions, accessOut, resp, admitLog, rlLast, scen, nonce>>

\* [req_time for req_time in self._requests[key] if req_time > window_start]
RLFilter(p) ==
    /\ procs[p].pc = "filter"
    /\ procs' = [procs EXCEPT ![p].pc = "assign",
                              ![p].kept = RLPruned(requests, procs[p].key,
                                                   RLWindow(procs[p].op), procs[p].at)]
    /\ UNCHANGED <<now, requests, users, sessions, accessOut, resp, admitLog, rlLast, scen, nonce, nreq>>

\* self._requests[key] = <the filtered list>
RLAssign(p) ==
    /\ procs[p].pc = "assign"
    /\ requests' = [requests EXCEPT ![procs[p].key] = procs[p].kept]
    /\ procs' = [procs EXCEPT ![p].pc = "check"]
    /\ UNCHANGED <<now, users, sessions, accessOut, resp, admitLog, rlLast, scen, nonce, nreq>>

\* if len(self._requests[key]) >= max_requests: return False, 0
RLCheck(p) ==
    /\ procs[p].pc = "check"
    /\ IF RLUnderLimit(Len(requests[procs[p].key]), RLMax(procs[p].op))
       THEN procs' = [procs EXCEPT ![p].pc = "append"]
       ELSE procs' = [procs EXCEPT ![p].pc = "done", ![p].detail = "refused"]
    /\ UNCHANGED <<now, requests, users, sessions, accessOut, resp, admitLog, rlLast, scen, nonce, nreq>>

\* self._requests[key].append(now); return True, remaining
RLAppend(p) ==
    LET key == procs[p].key IN
    /\ procs[p].pc = "append"
    /\ requests' = [requests EXCEPT ![key] = Append(@, procs[p].at)]
    /\ admitLog' = [k \in DOMAIN admitLog \cup {key} |->
                       IF k = key THEN Append(RLStored(admitLog, key), procs[p].at)
                       ELSE admitLog[k]]
    /\ procs' = [procs EXCEPT ![p].pc = "done", ![p].detail = "allowed"]
    /\ UNCHANGED <<now, users, sessions, accessOut, resp, rlLast, scen, nonce, nreq>>

NextRLConc ==
    \/ \E p \in Procs, action \in RLConcActions, ip \in Ips : RLBegin(p, action, ip)
    \/ \E p \in Procs : RLFilter(p)
    \/ \E p \in Procs : RLAssign(p)
    \/ \E p \in Procs : RLCheck(p)
    \/ \E p \in Procs : RLAppend(p)
    \/ \E d \in RLConcTicks : Tick(d, MaxRLConcClock)

SpecRLConc == Init /\ [][NextRLConc]_vars

\* how often the time t stands in a list
TimesIn(list, t) == Cardinality({i \in 1..Len(list) : list[i] = t})

\* the list of a key holds at most max_requests timestamps of the window ending now, and
\* every admission of that window is still on it
RLListSound(action, ip) ==
    LET key == RLKey(action, ip)
        stored == RLStored(requests, key)
        admitted == RLStored(admitLog, key)
    IN
    /\ Cardinality({i \in 1..Len(stored) : InWindow(stored[i], now, RLWindow(action))})
          <= RLMax(action)
    /\ \A i \in 1..Len(admitted) :
          InWindow(admitted[i], now, RLWindow(action))
             => TimesIn(stored, admitted[i]) >= TimesIn(admitted, admitted[i])

MaxExpiryRequests == 4
MaxExpiryClock == 86401
ExpiryTimes == {3599, 3600, 3601, 86399, 86400, 86401}

NextExpiry ==
    \/ \E ip \in Ips : nreq < MaxExpiryRequests /\ ForgotPassword(ip, "a@x.com")
    \/ \E ip \in Ips, token \in accessOut :
          nreq < MaxExpiryRequests /\ ResendVerification(ip, token)
    \/ \E ip \in Ips, token \in PurposeTokensOut :
          nreq < MaxExpiryRequests /\ ResetPassword(ip, token, PwXyzw)
    \/ \E token \in PurposeTokensOut : nreq < MaxExpiryRequests /\ VerifyEmail(token)
    \/ \E t \in ExpiryTimes : t > now /\ Tick(t - now, MaxExpiryClock)

SpecExpiry == InitRegistered /\ [][NextExpiry]_vars

\* the rows holding a reset or verification token, whatever their validity
RowsOfSecret(prefix, token) ==
    {i \in Ids(sessions) : sessions[i].refresh_token = Secret(prefix, token)}

\* the valid row of an active user's reset token / of a verification token
LiveResetRows(token) ==
    {i \in RowsOfSecret("reset", token) :
        /\ sessions[i].is_valid = 1 /\ sessions[i].device_info = "password_reset"
        /\ users[sessions[i].user_id].is_active = 1}

LiveVerifyRows(token) ==
    {i \in RowsOfSecret("verify", token) :
        sessions[i].is_valid = 1 /\ sessions[i].device_info = "email_verification"}

ResetAdmitted(ip) == IsAllowed(requests, RLKey("reset_password", ip), ResetLimit, ResetWindow, now)

\* C18 as stated: a token presented at now >= expires_at, also exactly at expires_at, is
\* refused and changes neither the password hash nor the email_verified flag.
C18_RejectedAtExpiry ==
    [][ /\ \A ip \in Ips, token \in PurposeTokensOut :
              (/\ ResetPassword(ip, token, PwXyzw)
               /\ \E i \in RowsOfSecret("reset", token) : now >= sessions[i].expires_at)
              => resp'.status # 200 /\ users' = users
        /\ \A token \in PurposeTokensOut :
              (/\ VerifyEmail(token)
               /\ \E i \in RowsOfSecret("verify", token) : now >= sessions[i].expires_at)
              => resp'.status # 200 /\ users' = users ]_vars

\* C18 as the code has it: reset-password and verify-email accept a token only when its
\* row is valid and now <= expires_at; presented after expires_at it is refused and
\* changes neither the password hash nor email_verified; presented exactly at expires_at
\* it is still accepted.
C18_AcceptedUntilExpiry ==
    [][ /\ \A ip \in Ips, token \in PurposeTokensOut :
              ResetPassword(ip, token, PwXyzw) =>
                 /\ resp'.status = 200 =>
                       \E i \in LiveResetRows(token) : now <= sessions[i].expires_at
                 /\ (\E i \in RowsOfSecret("reset", token) : now > sessions[i].expires_at)
                       => resp'.status # 200 /\ users' = users
                 /\ (ResetAdmitted(ip) /\ \E i \in LiveResetRows(token) : now = sessions[i].expires_at)
                       => /\ resp'.status = 200
                          /\ \E i \in LiveResetRows(token) :
                                users'[sessions[i].user_id].password_hash = HashPassword(PwXyzw)
        /\ \A token \in PurposeTokensOut :
              VerifyEmail(token) =>
                 /\ resp'.status = 200 =>
                       \E i \in LiveVerifyRows(token) : now <= sessions[i].expires_at
                 /\ (\E i \in RowsOfSecret("verify", token) : now > sessions[i].expires_at)
                       => resp'.status # 200 /\ users' = users
                 /\ (\E i \in LiveVerifyRows(token) : now = sessions[i].expires_at)
                       => /\ resp'.status = 200
                          /\ \E i \in LiveVerifyRows(token) :
                                users'[sessions[i].user_id].email_verified = 1 ]_vars

\* a password was reset with a token presented exactly at its expires_at
C18_Witness ==
    /\ resp.op = "reset_password" /\ resp.status = 200
    /\ VerifyPassword(PwXyzw, users[resp.user].password_hash)
    /\ \E i \in Ids(sessions) :
          /\ sessions[i].device_info = "password_reset" /\ sessions[i].user_id = resp.user
          /\ sessions[i].is_valid = 0 /\ sessions[i].expires_at = now

\* C19: when reset-password or verify-email reads a row that is still valid but past its
\* expires_at, the request is refused as expired, that row and no other is set to
\* is_valid = 0, no user changes, and the token no longer has a valid row, so presenting
\* it again is refused as not found.
C19_LazyInvalidation ==
    [][ /\ \A ip \in Ips, token \in PurposeTokensOut : \A i \in LiveResetRows(token) :
              (ResetPassword(ip, token, PwXyzw) /\ ResetAdmitted(ip) /\ now > sessions[i].expires_at)
              => /\ resp'.status = 400
                 /\ resp'.detail = "Reset token has expired. Please request a new one."
                 /\ sessions' = [sessions EXCEPT ![i].is_valid = 0]
                 /\ users' = users
                 /\ \A j \in Ids(sessions') :
                       sessions'[j].refresh_token = Secret("reset", token) => sessions'[j].is_valid = 0
        /\ \A token \in PurposeTokensOut : \A i \in LiveVerifyRows(token) :
              (VerifyEmail(token) /\ now > sessions[i].expires_at)
              => /\ resp'.status = 400
                 /\ resp'.detail = "Verification token has expired. Please request a new one."
                 /\ sessions' = [sessions EXCEPT ![i].is_valid = 0]
                 /\ users' = users
                 /\ \A j \in Ids(sessions') :
                       sessions'[j].refresh_token = Secret("verify", token) => sessions'[j].is_valid = 0 ]_vars

\* a reset token was refused as not found after its row had been invalidated on expiry:
\* only reset tokens were issued, all their rows are past expires_at and invalid, and
\* the password was never changed
C19_Witness ==
    /\ resp.op = "reset_password" /\ resp.detail = "Invalid or expired reset token"
    /\ \E i \in Ids(sessions) : sessions[i].device_info = "password_reset"
    /\ \A i \in Ids(sessions) :
          sessions[i].device_info # None =>
             /\ sessions[i].device_info = "password_reset"
             /\ sessions[i].is_valid = 0 /\ sessions[i].expires_at < now
    /\ \A u \in Ids(users) : VerifyPassword(PwAbcd, users[u].password_hash)

(***************************************************************************)
(* SpecResetConc: reset-password requests served side by side, each        *)
(* db.fetch_one / db.execute of the handler a step, after forgot-password  *)
(* requests of the registered user                                         *)
(***************************************************************************)
MaxResetConcRequests == 3

\* /auth/reset-password up to its SELECT: rate limit, body checks, token lookup
ResetLookup(p, ip, token, new_password) ==
    LET key == RLKey("reset_password", ip)
        session == FindPurposeSession(sessions, users, Secret("reset", token), "password_reset", TRUE)
    IN
    /\ Free(p) /\ nreq < MaxResetConcRequests
    /\ nreq' = nreq + 1
    /\ requests' = IsAllowedRequests(requests, key, ResetLimit, ResetWindow, now)
    /\ admitLog' = LogAdmit(admitLog, requests, key, ResetLimit, ResetWindow, now)
    /\ IF ~IsAllowed(requests, key, ResetLimit, ResetWindow, now)
       THEN Finish(p, "reset_password", NoToken, 429, "Too many reset attempts. Please try again later.", 0, NoToken)
       ELSE IF Len(new_password) < 8
       THEN Finish(p, "reset_password", NoToken, 400, "Password must be at least 8 characters", 0, NoToken)
       ELSE IF session = 0
       THEN Finish(p, "reset_password", NoToken, 400, "Invalid or expired reset token", 0, NoToken)
       ELSE procs' = [procs EXCEPT ![p] = [IdleProc EXCEPT !.op = "reset_password", !.pc = "check",
                                              !.session = session, !.password = new_password,
                                              !.user = sessions[session].user_id]]
    /\ UNCHANGED <<now, users, sessions, accessOut, resp, rlLast, scen, nonce>>

\* /auth/reset-password: expiry check (with its UPDATE), strength check, UPDATE users
ResetUpdatePassword(p) ==
    LET session == procs[p].session IN
    /\ procs[p].op = "reset_password" /\ procs[p].pc = "check"
    /\ IF Expired(now, sessions[session].expires_at)
       THEN /\ sessions' = InvalidateSession(sessions, session)
            /\ users' = users
            /\ procs' = [procs EXCEPT ![p].pc = "done", ![p].status = 400,
                            ![p].detail = "Reset token has expired. Please request a new one."]
       ELSE IF PasswordError(procs[p].password) # ""
       THEN /\ UNCHANGED <<users, sessions>>
            /\ procs' = [procs EXCEPT ![p].pc = "done", ![p].status = 400,
                                      ![p].detail = PasswordError(procs[p].password)]
       ELSE /\ users' = SetPasswordHash(users, procs[p].user, HashPassword(procs[p].password))
            /\ sessions' = sessions
            /\ procs' = [procs EXCEPT ![p].pc = "invalidate_token"]
    /\ UNCHANGED <<now, requests, accessOut, resp, admitLog, rlLast, scen, nonce, nreq>>

\* /auth/reset-password: UPDATE user_sessions SET is_valid = 0 WHERE id = ?
ResetInvalidateToken(p) ==
    /\ procs[p].op = "reset_password" /\ procs[p].pc = "invalidate_token"
    /\ sessions' = InvalidateSession(sessions, procs[p].session)
    /\ procs' = [procs EXCEPT ![p].pc = "invalidate_others"]
    /\ UNCHANGED <<now, requests, users, accessOut, resp, admitLog, rlLast, scen, nonce, nreq>>

\* /auth/reset-password: UPDATE ... WHERE user_id = ? AND device_info != 'password_reset'
ResetInvalidateOthers(p) ==
    /\ procs[p].op = "reset_password" /\ procs[p].pc = "invalidate_others"
    /\ sessions' = InvalidateOthersForUser(sessions, procs[p].user)
    /\ procs' = [procs EXCEPT ![p].pc = "done", ![p].status = 200,
                    ![p].detail = "Password reset successfully. Please login with your new password."]
    /\ UNCHANGED <<now, requests, users, accessOut, resp, admitLog, rlLast, scen, nonce, nreq>>

NextResetConc ==
    \/ \E ip \in Ips : nreq < MaxResetConcRequests /\ ForgotPassword(ip, "a@x.com")
    \/ \E p \in Procs, ip \in Ips, token \in PurposeTokensOut, new \in {PwXyzw, PwAbcd, PwWeak} :
          ResetLookup(p, ip, token, new)
    \/ \E p \in Procs : ResetUpdatePassword(p)
    \/ \E p \in Procs : ResetInvalidateToken(p)
    \/ \E p \in Procs : ResetInvalidateOthers(p)

SpecResetConc == InitRegistered /\ [][NextResetConc]_vars

\* C20: a password-reset token changes a password at most once, also when two
\* reset-password requests present it side by side: they never both succeed.
C20_ResetTokenSingleUse ==
    \A p, q \in Procs :
        (/\ p # q
         /\ procs[p].op = "reset_password" /\ procs[q].op = "reset_password"
         /\ procs[p].session # 0 /\ procs[p].session = procs[q].session
         /\ procs[p].pc = "done" /\ procs[q].pc = "done")
        => ~(procs[p].status = 200 /\ procs[q].status = 200)

(***************************************************************************)
(* SpecToken: create_token_pair and verify_token called on their own, on   *)
(* tokens the server issued and on tokens made elsewhere, at times around  *)
(* the tokens' expiry.  The tables are those left by one registration.     *)
(***************************************************************************)
MaxPairs == 3
MaxTokenClock == 604801
TokenTimes == {1, 1800, 1801, 604800, 604801}
TokenTypes == {"access", "refresh"}
TokenRoles == {"farmer", "admin"}

\* payloads a client may present: any signer, any "type", with or without a subject,
\* expiring after the access or the refresh lifetime
TokenInputs ==
    [sig : {"server", "other"}, type : {"access", "refresh", "reset"}, sub : {0, 1},
     email : {"a@x.com"}, role : {"farmer"}, exp : {AccessTtl, RefreshTtl}, iat : {0},
     jti : {0}]

\* the tokens of the pairs callers hold
PairTokens ==
    UNION {{procs[p].token, procs[p].issued} : p \in {q \in Procs : procs[q].op = "create_token_pair"}}

\* tokens = create_token_pair(user_id, email, role)
IssuePair(p, user_id, email, role) ==
    LET tokens == CreateTokenPair(user_id, email, role, now, nonce + 1) IN
    /\ nonce < MaxPairs
    /\ nonce' = nonce + 1
    /\ procs' = [procs EXCEPT ![p] = [IdleProc EXCEPT !.op = "create_token_pair", !.pc = "done",
                                         !.user = user_id, !.email = email, !.at = now,
                                         !.token = tokens.access_token,
                                         !.issued = tokens.refresh_token]]
    /\ UNCHANGED <<now, requests, users, sessions, accessOut, resp, admitLog, rlLast, scen, nreq>>

\* token_data = verify_token(token, token_type)
VerifyCall(p, token, token_type) ==
    LET token_data == VerifyTokenData(token, token_type, now)
        returned == VerifyToken(token, token_type, now)
    IN
    /\ procs' = [procs EXCEPT ![p] = [IdleProc EXCEPT !.op = "verify_token", !.pc = "done",
                                         !.token = token, !.detail = token_type, !.at = now,
                                         !.status = IF returned THEN 200 ELSE 401,
                                         !.user = IF returned THEN token_data.user_id ELSE 0]]
    /\ UNCHANGED <<now, requests, users, sessions, accessOut, resp, admitLog, rlLast, scen, nonce, nreq>>

NextToken ==
    \/ \E user_id \in {1, 2}, email \in {"a@x.com"}, role \in TokenRoles :
          IssuePair(1, user_id, email, role)
    \/ \E token \in TokenInputs \cup PairTokens \cup accessOut \cup RefreshTokensOut,
          token_type \in TokenTypes :
          VerifyCall(2, token, token_type)
    \/ \E t \in TokenTimes : t > now /\ Tick(t - now, MaxTokenClock)

SpecToken == InitRegistered /\ [][NextToken]_vars

\* C21: verify_token returns nothing when the token's type is not the expected one, when
\* its signature is not the server's, or when its expiry has passed; so the access-token
\* guard never accepts a refresh token and the refresh endpoint never accepts an access
\* token.
C21_TypeSignatureExpiry ==
    \A p \in Procs :
        procs[p].op = "verify_token" =>
            LET token == procs[p].token
                t == procs[p].at
            IN
            /\ (\/ token.type # procs[p].detail
                \/ token.sig # "server"
                \/ token.exp < t) => (procs[p].status = 401 /\ procs[p].user = 0)
            /\ token.type = "refresh" => CurrentUser(token, users, t) = 0
            /\ token.type = "access" =>
                  RefreshOutcome(token, users, sessions, t) = "Invalid or expired refresh token"

\* the refresh token of the registered user, unexpired and with a valid session row, was
\* presented as an access token and refused
C21_Witness ==
    \E p \in Procs :
        /\ procs[p].op = "verify_token" /\ procs[p].token = RegisteredRefresh
        /\ procs[p].detail = "access" /\ procs[p].status = 401
        /\ procs[p].at < RegisteredRefresh.exp
        /\ RefreshOutcome(RegisteredRefresh, users, sessions, procs[p].at) = "ok"

\* C22: verifying, before its expiry, the access token of a pair made by
\* create_token_pair(user_id, email, role) as an access token yields the user_id given,
\* and verifying the pair's refresh token as a refresh token yields the same user_id.
C22_PairRoundTrip ==
    \A p, q \in Procs :
        (procs[p].op = "create_token_pair" /\ procs[q].op = "verify_token") =>
            /\ (/\ procs[q].token = procs[p].token /\ procs[q].detail = "access"
                /\ procs[q].at < procs[p].at + AccessTtl)
               => (procs[q].status = 200 /\ procs[q].user = procs[p].user)
            /\ (/\ procs[q].token = procs[p].issued /\ procs[q].detail = "refresh"
                /\ procs[q].at < procs[p].at + RefreshTtl)
               => (procs[q].status = 200 /\ procs[q].user = procs[p].user)

\* a pair was made for user 2 and its refresh token, verified later, named user 2
C22_Witness ==
    \E p, q \in Procs :
        /\ procs[p].op = "create_token_pair" /\ procs[p].user = 2
        /\ procs[q].op = "verify_token" /\ procs[q].token = procs[p].issued
        /\ procs[q].detail = "refresh" /\ procs[q].at > procs[p].at
        /\ procs[q].status = 200 /\ procs[q].user = 2

(***************************************************************************)
(* SpecSeq: the access-token guard, account deletion and logout            *)
(***************************************************************************)
\* what get_current_user looks at: signature, type, expiry and the user's row
GuardFacts(token) ==
    /\ token.sig = "server" /\ token.type = "access" /\ token.exp >= now
    /\ token.sub \in Ids(users) /\ users[token.sub].is_active = 1

\* C23: whether a guarded request passes get_current_user is decided by the token and the
\* user's row alone, whatever the session ledger holds; after a logout the access token,
\* while unexpired and of an active user, is still accepted.
C23_GuardIgnoresLedger ==
    [][ /\ \A token \in AccessInputs, ip \in Ips :
              (Logout(token) \/ DeleteAccount(token) \/ ResendVerification(ip, token))
                  => (resp'.status # 401 <=> GuardFacts(token))
        /\ (/\ resp'.op = "logout" /\ resp'.status = 200
            /\ resp'.token.exp >= now' /\ users'[resp'.user].is_active = 1)
           => CurrentUser(resp'.token, users', now') = resp'.user ]_vars

\* a guarded request was accepted for a user none of whose refresh-token rows is valid
C23_Witness ==
    /\ resp.op = "resend_verification" /\ resp.status = 200
    /\ \E i \in Ids(sessions) : sessions[i].user_id = resp.user /\ sessions[i].device_info = None
    /\ \A i \in Ids(sessions) :
          (sessions[i].user_id = resp.user /\ sessions[i].device_info = None)
              => sessions[i].is_valid = 0

Inactive(u) == u \in Ids(users) /\ users[u].is_active = 0

\* C26: delete-account keeps the user's row and sets is_active = 0 and every session row
\* of the user invalid; from then on login with the right password, refresh with any
\* refresh token issued to the user, reset-password with any reset token issued to the
\* user and the access-token guard all refuse that user.
C26_DeletedUserLockedOut ==
    [][ /\ Len(users') >= Len(users)
        /\ \A u \in Ids(users) : users'[u].email = users[u].email
        /\ \A token \in AccessInputs :
              (DeleteAccount(token) /\ resp'.status = 200) =>
                  /\ users'[token.sub].is_active = 0
                  /\ \A i \in Ids(sessions') :
                        sessions'[i].user_id = token.sub => sessions'[i].is_valid = 0
        /\ \A u \in Ids(users') :
              users'[u].is_active = 0 =>
                  \A i \in Ids(sessions') : sessions'[i].user_id = u => sessions'[i].is_valid = 0
        /\ \A ip \in Ips, email \in Emails :
              (/\ Login(ip, email, PwAbcd)
               /\ \E u \in Ids(users) : /\ users[u].email = Lower(email) /\ users[u].is_active = 0
                                        /\ users[u].password_hash = HashPassword(PwAbcd))
                  => (resp'.status \in {401, 429} /\ sessions' = sessions)
        /\ \A ip \in Ips, token \in RefreshInputs :
              (Refresh(ip, token) /\ Inactive(token.sub))
                  => (resp'.status = 401 /\ accessOut' = accessOut)
        /\ \A ip \in Ips, token \in PurposeInputs, new \in {PwXyzw, PwWeak} :
              (/\ ResetPassword(ip, token, new)
               /\ \E i \in Ids(sessions) : /\ sessions[i].refresh_token = Secret("reset", token)
                                           /\ Inactive(sessions[i].user_id))
                  => (resp'.status \in {400, 429} /\ users' = users)
        /\ \A token \in AccessInputs, ip \in Ips :
              ((Logout(token) \/ DeleteAccount(token) \/ ResendVerification(ip, token))
               /\ Inactive(token.sub))
                  => resp'.status = 401 ]_vars

\* an account holding a reset token was deleted: its row is still there, inactive
C26_Witness ==
    /\ resp.op = "delete_account" /\ resp.status = 200
    /\ Inactive(resp.user)
    /\ \E i \in Ids(sessions) : /\ sessions[i].user_id = resp.user
                                /\ sessions[i].device_info = "password_reset"
                                /\ sessions[i].is_valid = 0

\* C30: logout invalidates the user's rows of every kind, so a reset or verification token
\* issued before the logout and not yet expired is refused when presented afterwards.
C30_LogoutInvalidatesEveryKind ==
    [][ /\ \A token \in AccessInputs :
              (Logout(token) /\ resp'.status = 200) =>
                  \A i \in Ids(sessions) :
                      sessions[i].user_id = token.sub =>
                          /\ sessions'[i].is_valid = 0
                          /\ FindPurposeSession(sessions', users', sessions[i].refresh_token,
                                                sessions[i].device_info, FALSE) = 0
        /\ \A ip \in Ips, token \in PurposeInputs, new \in {PwXyzw, PwWeak} :
              (/\ ResetPassword(ip, token, new)
               /\ \E i \in Ids(sessions) : /\ sessions[i].refresh_token = Secret("reset", token)
                                           /\ sessions[i].is_valid = 0)
                  => (resp'.status \in {400, 429} /\ users' = users)
        /\ \A token \in PurposeInputs :
              (/\ VerifyEmail(token)
               /\ \E i \in Ids(sessions) : /\ sessions[i].refresh_token = Secret("verify", token)
                                           /\ sessions[i].is_valid = 0)
                  => (resp'.status = 400 /\ users' = users) ]_vars

\* register, forgot-password, logout, reset-password: the only reset token ever issued,
\* unexpired and never used, was refused
C30_Witness ==
    /\ nreq = 4 /\ resp.op = "reset_password" /\ resp.detail = "Invalid or expired reset token"
    /\ Len(users) = 1 /\ users[1].is_active = 1 /\ users[1].password_hash = HashPassword(PwAbcd)
    /\ Len(sessions) = 2
    /\ sessions[2].device_info = "password_reset" /\ sessions[2].is_valid = 0
    /\ sessions[2].expires_at > now
    /\ sessions[1].is_valid = 0

(***************************************************************************)
(* SpecRegConc: /auth/register as its database statements, each committed  *)
(* on its own connection, so that requests of several workers interleave   *)
(* between the uniqueness lookup and the INSERTs.                          *)
(***************************************************************************)
MaxRegConcRequests == 3
RegEmails == {"a@x.com", "B@x.com", "b@x.com"}

\* /auth/register up to its first statement: is_allowed, then SELECT id FROM users
\* WHERE email = ?
RegLookup(p, ip, email, password) ==
    LET key == RLKey("register", ip) IN
    /\ Free(p) /\ nreq < MaxRegConcRequests
    /\ nreq' = nreq + 1
    /\ requests' = IsAllowedRequests(requests, key, RegisterLimit, RegisterWindow, now)
    /\ admitLog' = LogAdmit(admitLog, requests, key, RegisterLimit, RegisterWindow, now)
    /\ IF ~IsAllowed(requests, key, RegisterLimit, RegisterWindow, now)
       THEN Finish(p, "register", NoToken, 429, "Too many registration attempts. Please try again later.", 0, NoToken)
       ELSE IF UserByEmail(users, Lower(email)) # 0
       THEN procs' = [procs EXCEPT ![p] = [IdleProc EXCEPT !.op = "register", !.pc = "done",
                                              !.status = 400, !.detail = "Email already registered",
                                              !.email = Lower(email)]]
       ELSE procs' = [procs EXCEPT ![p] = [IdleProc EXCEPT !.op = "register", !.pc = "insert_user",
                                              !.email = Lower(email), !.password = password]]
    /\ UNCHANGED <<now, users, sessions, accessOut, resp, rlLast, scen, nonce>>

\* validate_password_strength, then INSERT INTO users: the statement raises when the
\* email is already in the table, and the request ends in a 500
RegInsertUser(p) ==
    LET email == procs[p].email
        password == procs[p].password
    IN
    /\ procs[p].op = "register" /\ procs[p].pc = "insert_user"
    /\ IF PasswordError(password) # ""
       THEN /\ procs' = [procs EXCEPT ![p].pc = "done", ![p].status = 400,
                                      ![p].detail = PasswordError(password)]
            /\ UNCHANGED users
       ELSE IF EmailTaken(users, email)
       THEN /\ procs' = [procs EXCEPT ![p].pc = "done", ![p].status = 500,
                                      ![p].detail = "Internal server error"]
            /\ UNCHANGED users
       ELSE /\ users' = InsertUser(users, email, None, HashPassword(password))
            /\ procs' = [procs EXCEPT ![p].pc = "insert_session", ![p].user = Len(users) + 1]
    /\ UNCHANGED <<now, requests, sessions, accessOut, resp, admitLog, rlLast, scen, nonce, nreq>>

\* create_token_pair, INSERT INTO user_sessions, return TokenResponse
RegInsertSession(p) ==
    LET user_id == procs[p].user
        tokens == CreateTokenPair(user_id, procs[p].email, Role, now, nonce + 1)
    IN
    /\ procs[p].op = "register" /\ procs[p].pc = "insert_session"
    /\ sessions' = InsertSession(sessions, user_id, Secret("", tokens.refresh_token), None, now, now)
    /\ accessOut' = accessOut \cup {tokens.access_token}
    /\ nonce' = nonce + 1
    /\ procs' = [procs EXCEPT ![p].pc = "done", ![p].status = 201,
                              ![p].token = tokens.access_token,
                              ![p].issued = tokens.refresh_token]
    /\ UNCHANGED <<now, requests, users, resp, admitLog, rlLast, scen, nreq>>

NextRegConc ==
    \/ \E p \in Procs, ip \in Ips, email \in RegEmails, password \in {PwAbcd, PwWeak} :
          RegLookup(p, ip, email, password)
    \/ \E p \in Procs : RegInsertUser(p)
    \/ \E p \in Procs : RegInsertSession(p)

SpecRegConc == Init /\ [][NextRegConc]_vars

\* the refresh tokens handed out for an email
TokensForEmail(email) ==
    {i \in Ids(sessions) : /\ sessions[i].user_id \in Ids(users)
                           /\ users[sessions[i].user_id].email = email}

\* C24: no two user rows share an email, and however register requests naming one email
\* interleave, at most one user row with it is created and at most one of them returns
\* tokens.
C24_OneUserPerEmail ==
    /\ \A i, j \in Ids(users) : users[i].email = users[j].email => i = j
    /\ \A email \in {Lower(e) : e \in RegEmails} : Cardinality(TokensForEmail(email)) <= 1
    /\ \A p, q \in Procs :
          (/\ p # q /\ procs[p].op = "register" /\ procs[q].op = "register"
           /\ procs[p].email = procs[q].email
           /\ procs[p].status = 201) => procs[q].status # 201
    /\ \A p \in Procs : procs[p].status # 201 => procs[p].issued = NoToken

\* two requests for one email both passed the lookup; one got tokens, the other's INSERT
\* was refused
C24_Witness ==
    /\ procs[1].op = "register" /\ procs[1].status = 201
    /\ procs[2].op = "register" /\ procs[2].status = 500
    /\ procs[1].email = procs[2].email
    /\ Cardinality({i \in Ids(users) : users[i].email = procs[1].email}) = 1

(***************************************************************************)
(* SpecPassword: validate_password_strength applied to passwords of up to  *)
(* MaxPwHead free characters followed by up to MaxPwPad characters "~";    *)
(* "~" is no letter, no digit and not in special_chars.                    *)
(***************************************************************************)
MaxPwHead == 4
MaxPwPad == 5
PwAlphabet == {"A", "a", "1", "!", "~"}
PwPad(n) == [i \in 1..n |-> "~"]
PasswordInputs ==
    {head \o PwPad(n) : head \in UNION {[1..k -> PwAlphabet] : k \in 0..MaxPwHead},
                        n \in 0..MaxPwPad}

InitPassword ==
    /\ now = 0 /\ requests = <<>> /\ users = <<>> /\ sessions = <<>> /\ accessOut = {}
    /\ resp = NoResponse /\ admitLog = <<>> /\ rlLast = NoCall /\ scen = NoScen
    /\ nonce = 0 /\ nreq = 0
    /\ \E password \in PasswordInputs :
          procs = [p \in Procs |->
                      IF p = 1 THEN [IdleProc EXCEPT !.op = "validate_password_strength",
                                                     !.pc = "call", !.password = password]
                      ELSE IdleProc]

\* is_valid, error_msg = validate_password_strength(password)
ValidatePassword(p) ==
    LET error_msg == PasswordError(procs[p].password) IN
    /\ procs[p].op = "validate_password_strength" /\ procs[p].pc = "call"
    /\ procs' = [procs EXCEPT ![p].pc = "done", ![p].detail = error_msg,
                              ![p].verified = IF error_msg = "" THEN 1 ELSE 0]
    /\ UNCHANGED <<now, requests, users, sessions, accessOut, resp, admitLog, rlLast, scen,
                   nonce, nreq>>

NextPassword == \E p \in Procs : ValidatePassword(p)

SpecPassword == InitPassword /\ [][NextPassword]_vars

\* C25: a password is accepted exactly when it has at least 8 characters, an uppercase
\* letter, a lowercase letter, a digit and a character of special_chars; a rejection names
\* the first rule violated in the order length, uppercase, lowercase, digit, symbol.
C25_PasswordRules ==
    \A p \in Procs :
        (procs[p].op = "validate_password_strength" /\ procs[p].pc = "done") =>
            LET pw == procs[p].password
                long == Len(pw) >= 8
                upper == \E i \in 1..Len(pw) : pw[i] \in UpperChars
                lower == \E i \in 1..Len(pw) : pw[i] \in LowerChars
                digit == \E i \in 1..Len(pw) : pw[i] \in DigitChars
                symbol == \E i \in 1..Len(pw) : pw[i] \in SpecialChars
            IN
            /\ procs[p].verified = 1 <=> (long /\ upper /\ lower /\ digit /\ symbol)
            /\ procs[p].verified = 1 => procs[p].detail = ""
            /\ ~long => procs[p].detail = "Password must be at least 8 characters"
            /\ (long /\ ~upper)
                  => procs[p].detail = "Password must contain at least one uppercase letter"
            /\ (long /\ upper /\ ~lower)
                  => procs[p].detail = "Password must contain at least one lowercase letter"
            /\ (long /\ upper /\ lower /\ ~digit)
                  => procs[p].detail = "Password must contain at least one digit"
            /\ (long /\ upper /\ lower /\ digit /\ ~symbol)
                  => procs[p].detail = "Password must contain at least one special character"

\* an 8-character password with both letters but neither digit nor symbol was rejected
\* for its missing digit
C25_Witness ==
    /\ procs[1].pc = "done" /\ Len(procs[1].password) = 8
    /\ HasChar(procs[1].password, UpperChars) /\ HasChar(procs[1].password, LowerChars)
    /\ ~HasChar(procs[1].password, DigitChars) /\ ~HasChar(procs[1].password, SpecialChars)
    /\ procs[1].verified = 0
    /\ procs[1].detail = "Password must contain at least one digit"

(***************************************************************************)
(* SpecRL: what one is_allowed call leaves in the stored list              *)
(***************************************************************************)
\* C27: a refused is_allowed call records nothing: the key's list afterwards is the list
\* it had, pruned, and nothing else; the time of the refused call is not put on it.
C27_RefusalRecordsNothing ==
    [][ \A action \in RLActions, ip \in Ips, gap \in RLGaps :
            (RLCall(action, ip, gap) /\ ~rlLast'.allowed) =>
                LET key == <<action, ip>>
                    old == RLStored(requests, key)
                IN
                /\ requests'[key] = RLPruned(requests, key, RLWindow(action), now')
                /\ Len(requests'[key]) <= Len(old)
                /\ TimesIn(requests'[key], now') = TimesIn(old, now')
                /\ rlLast'.remaining = 0 ]_vars

\* a call was refused one second or more after the fifth admission, and the list still
\* ends with that admission
C27_Witness ==
    LET key == RLKey("register", "203.0.113.5") IN
    /\ rlLast.key = key /\ ~rlLast.allowed /\ nreq >= 6
    /\ Len(requests[key]) = 5
    /\ requests[key][5] < rlLast.at

\* C28 as stated: each call discards exactly the timestamps strictly older than
\* now - window_seconds, so one recorded exactly window_seconds before now still counts.
C28_KeepsBoundaryTimestamp ==
    [][ \A action \in RLActions, ip \in Ips, gap \in RLGaps :
            RLCall(action, ip, gap) =>
                LET key == <<action, ip>>
                    kept == SelectSeq(RLStored(requests, key),
                                      LAMBDA x : x >= now' - RLWindow(action))
                IN
                /\ rlLast'.allowed <=> Len(kept) < RLMax(action)
                /\ requests'[key] = IF rlLast'.allowed THEN Append(kept, now') ELSE kept ]_vars

\* C28: each call discards exactly the timestamps at or before now - window_seconds, so
\* one recorded exactly window_seconds before now no longer counts against the limit.
C28_DropsBoundaryTimestamp ==
    [][ \A action \in RLActions, ip \in Ips, gap \in RLGaps :
            RLCall(action, ip, gap) =>
                LET key == <<action, ip>>
                    kept == SelectSeq(RLStored(requests, key),
                                      LAMBDA x : x > now' - RLWindow(action))
                IN
                /\ rlLast'.allowed <=> Len(kept) < RLMax(action)
                /\ requests'[key] = IF rlLast'.allowed THEN Append(kept, now') ELSE kept ]_vars

\* five admissions at one instant and a call exactly 3600 seconds later: all five were
\* dropped and the call was admitted with four requests remaining
C28_Witness ==
    LET key == RLKey("register", "203.0.113.5") IN
    /\ rlLast.key = key /\ rlLast.allowed /\ rlLast.remaining = 4
    /\ Len(admitLog[key]) = 6
    /\ \A i \in 1..5 : admitLog[key][i] = rlLast.at - 3600
    /\ requests[key] = <<rlLast.at>>

(***************************************************************************)
(* SpecRLKeys: is_allowed called for several actions and client addresses  *)
(***************************************************************************)
MaxKeyCalls == 5
KeyActions == {"resend_verify", "login"}
KeyIps == {"203.0.113.5", "198.51.100.7"}
KeyGaps == {0, 900}

NextRLKeys ==
    \E action \in KeyActions, ip \in KeyIps, gap \in KeyGaps :
        nreq < MaxKeyCalls /\ RLCall(action, ip, gap)

SpecRLKeys == Init /\ [][NextRLKeys]_vars

\* C29: an is_allowed call for one action and address leaves the list of every other
\* action or address as it was and does not change whether a call for it would be
\* admitted; its own outcome is decided by its own list.
C29_KeysIndependent ==
    [][ \A action \in KeyActions, ip \in KeyIps, gap \in KeyGaps :
            RLCall(action, ip, gap) =>
                /\ \A a2 \in KeyActions, ip2 \in KeyIps :
                      <<a2, ip2>> # <<action, ip>> =>
                          /\ RLStored(requests', RLKey(a2, ip2)) = RLStored(requests, RLKey(a2, ip2))
                          /\ IsAllowed(requests', RLKey(a2, ip2), RLMax(a2), RLWindow(a2), now')
                                = IsAllowed(requests, RLKey(a2, ip2), RLMax(a2), RLWindow(a2), now')
                /\ LET own == RLStored(requests, <<action, ip>>) IN
                   rlLast'.allowed <=>
                       Cardinality({i \in 1..Len(own) : own[i] > now' - RLWindow(action)})
                           < RLMax(action) ]_vars

\* one address used up its three resend calls and had a fourth refused; a call from the
\* other address in the same window was admitted
C29_Witness ==
    LET k1 == <<"resend_verify", "203.0.113.5">>
        k2 == <<"resend_verify", "198.51.100.7">>
    IN
    /\ nreq = 5 /\ DOMAIN requests = {k1, k2}
    /\ Len(requests[k1]) = 3 /\ admitLog[k1] = requests[k1]
    /\ Len(requests[k2]) = 1
    /\ rlLast.key = k2 /\ rlLast.allowed
    /\ requests[k1][1] > now - 3600

(***************************************************************************)
(* SpecRegister: /auth/register requests from one client address, with and *)
(* without a phone number, with strong, weak and too short passwords       *)
(***************************************************************************)
MaxRegRequests == 7
RegPhones == {None, "9876543210"}

NextRegister ==
    \E ip \in Ips, email \in Emails, phone \in RegPhones, password \in {PwAbcd, PwWeak, PwShort} :
        nreq < MaxRegRequests /\ Register(ip, email, phone, password)

SpecRegister == Init /\ [][NextRegister]_vars

\* what a register request meets, read off the tables before it is served
RegLimited(ip) ==
    LET stored == RLStored(requests, <<"register", ip>>) IN
    Cardinality({i \in 1..Len(stored) : stored[i] > now - 3600}) >= 5
RegEmailKnown(email) == \E i \in Ids(users) : users[i].email = Lower(email)
RegPhoneKnown(phone) == phone # None /\ \E i \in Ids(users) : users[i].phone = phone
RegWeak(password) ==
    \/ Len(password) < 8
    \/ ~HasChar(password, UpperChars) \/ ~HasChar(password, LowerChars)
    \/ ~HasChar(password, DigitChars) \/ ~HasChar(password, SpecialChars)

\* the check a register response reports
RegReported(r) ==
    IF r.status = 201 THEN "none"
    ELSE IF r.status = 429 THEN "rate limit"
    ELSE IF r.detail = "Email already registered" THEN "email"
    ELSE IF r.detail = "Phone number already registered" THEN "phone"
    ELSE "password"

\* the first check that fails, in the order rate limit, email, phone, password
RegFirstFailing(ip, email, phone, password) ==
    IF RegLimited(ip) THEN "rate limit"
    ELSE IF RegEmailKnown(email) THEN "email"
    ELSE IF RegPhoneKnown(phone) THEN "phone"
    ELSE IF RegWeak(password) THEN "password"
    ELSE "none"

\* a register request that is not answered 201 creates no user row and no session row
RegFailureCreatesNothing ==
    /\ resp'.status # 201 => (users' = users /\ sessions' = sessions)
    /\ resp'.status = 201 => (Len(users') = Len(users) + 1 /\ Len(sessions') = Len(sessions) + 1)

C32_FailedChangeChangesNothing ==
    [][ \A token \in AccessInputs, cur \in {PwAbcd, PwXyzw}, new \in {PwXyzw, PwWeak, PwShort} :
            ChangePassword(token, cur, new) =>
                /\ resp'.status # 200 => (users' = users /\ sessions' = sessions)
                /\ (/\ GuardFacts(token)
                    /\ (users[token.sub].password_hash.of # cur \/ RegWeak(new)))
                   => resp'.status \in {400, 422} ]_vars

\* a user with a valid session asked for a weak new password and was refused; the hash
\* is the one set at registration
C32_Witness ==
    /\ resp.op = "change_password" /\ resp.status = 400
    /\ resp.detail = "Password must contain at least one uppercase letter"
    /\ users[resp.user].password_hash = HashPassword(PwAbcd)
    /\ \E i \in Ids(sessions) : sessions[i].user_id = resp.user /\ sessions[i].is_valid = 1

\* the reset row of a token, valid, of an active user and not past its expiry; 0 if none
UsableResetRow(token) ==
    LET ok(i) == /\ sessions[i].refresh_token = Secret("reset", token)
                 /\ sessions[i].device_info = "password_reset"
                 /\ sessions[i].is_valid = 1
                 /\ users[sessions[i].user_id].is_active = 1
                 /\ now <= sessions[i].expires_at
    IN IF \E i \in Ids(sessions) : ok(i) THEN CHOOSE i \in Ids(sessions) : ok(i) ELSE 0

\* C33: a reset-password request with a valid, unexpired token and a new password that
\* fails the strength rules is refused with the rule it fails, changes no password hash
\* and leaves the reset row valid; the same token then still resets the password when an
\* acceptable one is sent.
C33_WeakResetKeepsToken ==
    [][ \A ip \in Ips, token \in PurposeInputs, new \in {PwXyzw, PwWeak, PwShort} :
            (ResetPassword(ip, token, new) /\ UsableResetRow(token) # 0 /\ resp'.status # 429) =>
                LET row == UsableResetRow(token) IN
                IF RegWeak(new)
                THEN /\ resp'.status = 400 /\ resp'.detail = PasswordError(new)
                     /\ users' = users /\ sessions' = sessions
                     /\ sessions'[row].is_valid = 1
                ELSE /\ resp'.status = 200
                     /\ users'[sessions[row].user_id].password_hash = HashPassword(new)
                     /\ sessions'[row].is_valid = 0 ]_vars

\* a weak password was refused for its missing uppercase letter, which the handler tests
\* only after it found the row and saw it unexpired; the row is still valid
C33_Witness ==
    /\ resp.op = "reset_password" /\ resp.status = 400
    /\ resp.detail = "Password must contain at least one uppercase letter"
    /\ users[resp.user].password_hash = HashPassword(PwAbcd)
    /\ \E i \in Ids(sessions) : /\ sessions[i].user_id = resp.user
                                /\ sessions[i].device_info = "password_reset"
                                /\ sessions[i].is_valid = 1
                                /\ UsableResetRow(sessions[i].refresh_token.tok) = i

(***************************************************************************)
(* SpecSeq: verification, rows of other users, several logins              *)
(***************************************************************************)
\* the rows holding a secret
RowsWith(secret) == {i \in Ids(sessions) : sessions[i].refresh_token = secret}

\* C34: a successful verify-email sets email_verified on the row's user and invalidates
\* the presented row; an invalid row never becomes valid again, so the token is refused
\* on every later use; resend-verification for a user already verified inserts no row
\* and invalidates none.
C34_VerifyOnceResendNoop ==
    [][ /\ \A i \in Ids(sessions) : sessions[i].is_valid = 0 => sessions'[i].is_valid = 0
        /\ \A token \in PurposeInputs :
              VerifyEmail(token) =>
                  /\ resp'.status = 200 =>
                        /\ users'[resp'.user].email_verified = 1
                        /\ \A i \in RowsWith(Secret("verify", token)) :
                              sessions[i].user_id = resp'.user /\ sessions'[i].is_valid = 0
                  /\ (\A i \in RowsWith(Secret("verify", token)) : sessions[i].is_valid = 0)
                        => (resp'.status = 400 /\ users' = users /\ sessions' = sessions)
        /\ \A ip \in Ips, token \in AccessInputs :
              (/\ ResendVerification(ip, token) /\ GuardFacts(token)
               /\ users[token.sub].email_verified = 1)
                  => (sessions' = sessions /\ resp'.status \in {200, 429}) ]_vars

\* register, resend-verification, verify-email, and the same token again: refused, the
\* user verified, the row spent
C34_Witness ==
    /\ nreq = 4 /\ resp.op = "verify_email" /\ resp.status = 400
    /\ Len(users) = 1 /\ users[1].email_verified = 1
    /\ Len(sessions) = 2 /\ sessions[2].device_info = "email_verification"
    /\ sessions[2].is_valid = 0 /\ sessions[2].expires_at > now

\* the user a reset token was issued to, 0 when there is no row of it
ResetOwner(token) ==
    IF RowsWith(Secret("reset", token)) = {} THEN 0
    ELSE sessions[CHOOSE i \in RowsWith(Secret("reset", token)) : TRUE].user_id

\* the rows of users other than u are exactly as before
OthersUntouched(u) == \A i \in Ids(sessions) : sessions[i].user_id # u => sessions'[i] = sessions[i]

\* C36: logout, change-password, delete-account, resend-verification and refresh done
\* with a token of user U, and reset-password done with a reset token of U, leave every
\* session row of every other user as it was.
C36_OtherUsersRowsUntouched ==
    [][ /\ \A token \in AccessInputs : Logout(token) => OthersUntouched(token.sub)
        /\ \A token \in AccessInputs : DeleteAccount(token) => OthersUntouched(token.sub)
        /\ \A token \in AccessInputs, cur \in {PwAbcd, PwXyzw}, new \in {PwXyzw, PwWeak, PwShort} :
              ChangePassword(token, cur, new) => OthersUntouched(token.sub)
        /\ \A ip \in Ips, token \in AccessInputs :
              ResendVerification(ip, token) => OthersUntouched(token.sub)
        /\ \A ip \in Ips, token \in RefreshInputs : Refresh(ip, token) => OthersUntouched(token.sub)
        /\ \A ip \in Ips, token \in PurposeInputs, new \in {PwXyzw, PwWeak, PwShort} :
              ResetPassword(ip, token, new) => OthersUntouched(ResetOwner(token)) ]_vars

\* two users are registered; one logged out and has no valid row, the other's row is valid
C36_Witness ==
    /\ resp.op = "logout" /\ resp.status = 200 /\ Len(users) = 2
    /\ \A i \in Ids(sessions) : sessions[i].user_id = resp.user => sessions[i].is_valid = 0
    /\ \E i \in Ids(sessions) : sessions[i].user_id # resp.user /\ sessions[i].is_valid = 1

\* C37: a successful login appends exactly one row, valid, of the refresh kind, holding the
\* token returned, and changes no other row, so the rows of earlier logins stay valid; a
\* refresh touches no row but that of the token presented, so each of a user's refresh
\* tokens is refreshed on its own.
C37_LoginAddsOneRow ==
    [][ /\ \A ip \in Ips, email \in Emails, password \in {PwAbcd, PwXyzw} :
              (Login(ip, email, password) /\ resp'.status = 200) =>
                  /\ Len(sessions') = Len(sessions) + 1
                  /\ \A i \in Ids(sessions) : sessions'[i] = sessions[i]
                  /\ LET row == sessions'[Len(sessions')] IN
                     /\ row.user_id = resp'.user /\ row.is_valid = 1 /\ row.device_info = None
                     /\ row.refresh_token = Secret("", resp'.issued)
        /\ \A ip \in Ips, token \in RefreshInputs :
              Refresh(ip, token) =>
                  /\ \A i \in Ids(sessions) :
                        sessions[i].refresh_token # Secret("", token) => sessions'[i] = sessions[i]
                  /\ (/\ token.sig = "server" /\ token.exp >= now
                      /\ \E i \in RowsWith(Secret("", token)) : sessions[i].is_valid = 1
                      /\ token.sub \in Ids(users) /\ users[token.sub].is_active = 1)
                        => resp'.status = 200 ]_vars

\* register, login, then both refresh tokens refreshed one after the other: two spent
\* rows and two valid rows of one user
C37_Witness ==
    /\ nreq = 4 /\ resp.op = "refresh" /\ resp.status = 200 /\ Len(users) = 1
    /\ Len(sessions) = 4
    /\ sessions[1].is_valid = 0 /\ sessions[2].is_valid = 0
    /\ sessions[3].is_valid = 1 /\ sessions[4].is_valid = 1

(***************************************************************************)
(* SpecRL: the second component of is_allowed's result                     *)
(***************************************************************************)
\* C39: an admitted call returns max_requests less the number of timestamps in the
\* window, its own included, a value in 0..max_requests-1; a refused call returns 0.
C39_RemainingCount ==
    [][ \A action \in RLActions, ip \in Ips, gap \in RLGaps :
            RLCall(action, ip, gap) =>
                LET old == RLStored(requests, <<action, ip>>)
                    inWindow == Cardinality({i \in 1..Len(old) : old[i] > now' - RLWindow(action)})
                IN
                IF rlLast'.allowed
                THEN /\ rlLast'.remaining = RLMax(action) - (inWindow + 1)
                     /\ rlLast'.remaining = RLMax(action) - Len(requests'[<<action, ip>>])
                     /\ rlLast'.remaining \in 0..(RLMax(action) - 1)
                ELSE rlLast'.remaining = 0 ]_vars

\* the fifth call of the hour was admitted and left nothing remaining
C39_Witness ==
    LET key == RLKey("register", "203.0.113.5") IN
    /\ rlLast.key = key /\ rlLast.allowed /\ rlLast.remaining = 0
    /\ Len(requests[key]) = 5 /\ requests[key][5] = rlLast.at

(***************************************************************************)
(* SpecLogoutConc: /auth/refresh as its statements beside /auth/logout and *)
(* /auth/change-password, whose last statement invalidates every session   *)
(* row of the user.  session of a finished logout or change-password is    *)
(* the row a refresh of the same user had read and not yet replaced when   *)
(* that statement ran, 0 when there was none.                              *)
(***************************************************************************)
MaxLogoutConcRequests == 3

\* /auth/logout, the dependency get_current_user
LogoutAuth(p, token) ==
    LET current_user == CurrentUser(token, users, now) IN
    /\ Free(p) /\ nreq < MaxLogoutConcRequests
    /\ nreq' = nreq + 1
    /\ IF current_user = 0
       THEN Finish(p, "logout", token, 401, AuthError(token, users, now), 0, NoToken)
       ELSE procs' = [procs EXCEPT ![p] = [IdleProc EXCEPT !.op = "logout", !.pc = "invalidate_all",
                                              !.token = token, !.user = current_user]]
    /\ UNCHANGED <<now, requests, users, sessions, accessOut, resp, admitLog, rlLast, scen, nonce>>

\* /auth/change-password up to UPDATE users SET password_hash = ?
ChangeUpdateUser(p, token, current_password, new_password) ==
    LET current_user == CurrentUser(token, users, now) IN
    /\ Free(p) /\ nreq < MaxLogoutConcRequests
    /\ nreq' = nreq + 1
    /\ IF current_user = 0
       THEN /\ Finish(p, "change_password", token, 401, AuthError(token, users, now), 0, NoToken)
            /\ UNCHANGED users
       ELSE IF ~SchemaAccepts(new_password)
       THEN /\ Finish(p, "change_password", token, 422, "ensure this value has at least 8 characters", current_user, NoToken)
            /\ UNCHANGED users
       ELSE IF ~VerifyPassword(current_password, users[current_user].password_hash)
       THEN /\ Finish(p, "change_password", token, 400, "Current password is incorrect", current_user, NoToken)
            /\ UNCHANGED users
       ELSE IF PasswordError(new_password) # ""
       THEN /\ Finish(p, "change_password", token, 400, PasswordError(new_password), current_user, NoToken)
            /\ UNCHANGED users
       ELSE /\ users' = SetPasswordHash(users, current_user, HashPassword(new_password))
            /\ procs' = [procs EXCEPT ![p] = [IdleProc EXCEPT !.op = "change_password",
                                                 !.pc = "invalidate_all", !.token = token,
                                                 !.user = current_user]]
    /\ UNCHANGED <<now, requests, sessions, accessOut, resp, admitLog, rlLast, scen, nonce>>

\* the row a refresh of user u has read as valid, its new session not yet inserted
RefreshInFlight(u) ==
    LET mid == {q \in Procs : /\ procs[q].op = "refresh"
                              /\ procs[q].pc \in {"invalidate", "get_user", "insert"}
                              /\ procs[q].token.sub = u}
    IN IF mid = {} THEN 0 ELSE procs[CHOOSE q \in mid : TRUE].session

\* UPDATE user_sessions SET is_valid = 0 WHERE user_id = ?, the last statement of logout
\* and of change-password
BulkInvalidate(p) ==
    /\ procs[p].op \in {"logout", "change_password"} /\ procs[p].pc = "invalidate_all"
    /\ sessions' = InvalidateAllForUser(sessions, procs[p].user)
    /\ procs' = [procs EXCEPT ![p].pc = "done", ![p].status = 200,
                              ![p].session = RefreshInFlight(procs[p].user)]
    /\ UNCHANGED <<now, requests, users, accessOut, resp, admitLog, rlLast, scen, nonce, nreq>>

NextLogoutConc ==
    \/ \E p \in Procs, token \in RefreshInputs :
          nreq < MaxLogoutConcRequests /\ RefreshLookup(p, token)
    \/ \E p \in Procs : RefreshInvalidate(p)
    \/ \E p \in Procs : RefreshGetUser(p)
    \/ \E p \in Procs : RefreshInsert(p)
    \/ \E p \in Procs, token \in AccessInputs : LogoutAuth(p, token)
    \/ \E p \in Procs, token \in AccessInputs, cur \in {PwAbcd, PwXyzw}, new \in {PwXyzw, PwWeak} :
          ChangeUpdateUser(p, token, cur, new)
    \/ \E p \in Procs : BulkInvalidate(p)

SpecLogoutConc == InitRegistered /\ [][NextLogoutConc]_vars

\* C35: when a logout or change-password of a user ran its bulk invalidation while a
\* refresh of the same user had already read its session row as valid, then, both
\* requests done, the user has no valid refresh row.
C35_RefreshDoesNotSurviveLogout ==
    \A p, q \in Procs :
        (/\ procs[p].op \in {"logout", "change_password"} /\ procs[p].pc = "done"
         /\ procs[p].status = 200 /\ procs[p].session # 0
         /\ procs[q].op = "refresh" /\ procs[q].pc = "done"
         /\ procs[q].session = procs[p].session)
            => \A i \in Ids(sessions) :
                  (sessions[i].user_id = procs[p].user /\ sessions[i].device_info = None)
                      => sessions[i].is_valid = 0

(***************************************************************************)
(* SpecRefreshEq: the /auth/refresh handler and AuthService.refresh_tokens *)
(* on the states that /auth/login and DELETE /auth/account, taken as their *)
(* statements, produce between them.                                       *)
(***************************************************************************)
MaxEqRequests == 4

\* /auth/login up to verify_password: is_allowed, SELECT the active user, compare
LoginLookup(p, ip, email, password) ==
    LET key == RLKey("login", ip)
        user == ActiveUserByEmail(users, Lower(email))
    IN
    /\ Free(p) /\ nreq < MaxEqRequests
    /\ nreq' = nreq + 1
    /\ requests' = IsAllowedRequests(requests, key, LoginLimit, LoginWindow, now)
    /\ admitLog' = LogAdmit(admitLog, requests, key, LoginLimit, LoginWindow, now)
    /\ IF ~IsAllowed(requests, key, LoginLimit, LoginWindow, now)
       THEN Finish(p, "login", NoToken, 429, "Too many login attempts. Please try again in 15 minutes.", 0, NoToken)
       ELSE IF user = 0
       THEN Finish(p, "login", NoToken, 401, "Invalid email or password", 0, NoToken)
       ELSE IF ~VerifyPassword(password, users[user].password_hash)
       THEN Finish(p, "login", NoToken, 401, "Invalid email or password", 0, NoToken)
       ELSE procs' = [procs EXCEPT ![p] = [IdleProc EXCEPT !.op = "login", !.pc = "insert",
                                              !.user = user, !.email = users[user].email]]
    /\ UNCHANGED <<now, users, sessions, accessOut, resp, rlLast, scen, nonce>>

\* /auth/login: create_token_pair, INSERT INTO user_sessions, return the tokens
LoginInsert(p) ==
    LET tokens == CreateTokenPair(procs[p].user, procs[p].email, Role, now, nonce + 1) IN
    /\ procs[p].op = "login" /\ procs[p].pc = "insert"
    /\ sessions' = InsertSession(sessions, procs[p].user, Secret("", tokens.refresh_token), None, now, now)
    /\ accessOut' = accessOut \cup {tokens.access_token}
    /\ nonce' = nonce + 1
    /\ procs' = [procs EXCEPT ![p].pc = "done", ![p].status = 200,
                              ![p].token = tokens.access_token, ![p].issued = tokens.refresh_token]
    /\ UNCHANGED <<now, requests, users, resp, admitLog, rlLast, scen, nreq>>

\* DELETE /auth/account: get_current_user, then UPDATE users SET is_active = 0
DeleteDeactivate(p, token) ==
    LET current_user == CurrentUser(token, users, now) IN
    /\ Free(p) /\ nreq < MaxEqRequests
    /\ nreq' = nreq + 1
    /\ IF current_user = 0
       THEN /\ Finish(p, "delete_account", token, 401, AuthError(token, users, now), 0, NoToken)
            /\ UNCHANGED users
       ELSE /\ users' = [users EXCEPT ![current_user].is_active = 0]
            /\ procs' = [procs EXCEPT ![p] = [IdleProc EXCEPT !.op = "delete_account",
                                                 !.pc = "invalidate_all", !.token = token,
                                                 !.user = current_user]]
    /\ UNCHANGED <<now, requests, sessions, accessOut, resp, admitLog, rlLast, scen, nonce>>

\* DELETE /auth/account: UPDATE user_sessions SET is_valid = 0 WHERE user_id = ?
DeleteInvalidate(p) ==
    /\ procs[p].op = "delete_account" /\ procs[p].pc = "invalidate_all"
    /\ sessions' = InvalidateAllForUser(sessions, procs[p].user)
    /\ procs' = [procs EXCEPT ![p].pc = "done", ![p].status = 200,
                              ![p].detail = "Account deleted successfully"]
    /\ UNCHANGED <<now, requests, users, accessOut, resp, admitLog, rlLast, scen, nonce, nreq>>

\* AuthService.refresh_tokens: the error it returns, "ok" when it returns tokens
ServiceRefreshOutcome(token, us, ss, t) ==
    IF ~VerifyToken(token, "refresh", t) THEN "Invalid or expired refresh token"
    ELSE IF FindValidSession(ss, Secret("", token)) = 0 THEN "Session not found or invalidated"
    ELSE IF ActiveUserById(us, token.sub) = 0 THEN "User not found or inactive"
    ELSE "ok"

\* AuthService.refresh_tokens: user_sessions when it returns; the old row is invalidated
\* only after the user was found, the new row comes from _create_session
ServiceRefreshSessions(token, us, ss, t, rnd) ==
    LET session == FindValidSession(ss, Secret("", token))
        user == token.sub
        tokens == CreateTokenPair(user, us[user].email, Role, t, rnd)
    IN
    IF ServiceRefreshOutcome(token, us, ss, t) # "ok" THEN ss
    ELSE InsertSession(InvalidateSession(ss, session), user, Secret("", tokens.refresh_token),
                       None, t + RefreshTtl, t)

\* AuthService.refresh_tokens(refresh_token)
ServiceRefresh(token) ==
    LET outcome == ServiceRefreshOutcome(token, users, sessions, now)
        user == token.sub
        tokens == CreateTokenPair(user, users[user].email, Role, now, nonce + 1)
    IN
    /\ nreq < MaxEqRequests
    /\ sessions' = ServiceRefreshSessions(token, users, sessions, now, nonce + 1)
    /\ UNCHANGED <<now, procs, admitLog, rlLast, users, requests>>
    /\ IF outcome # "ok"
       THEN /\ Served(Response("refresh_tokens", 401, outcome, 0, token, NoToken))
            /\ UNCHANGED <<accessOut, nonce>>
       ELSE /\ accessOut' = accessOut \cup {tokens.access_token}
            /\ nonce' = nonce + 1
            /\ Served(Response("refresh_tokens", 200, "", user, token, tokens.refresh_token))

NextRefreshEq ==
    \/ \E p \in Procs, ip \in Ips, email \in {"a@x.com"}, password \in {PwAbcd, PwXyzw} :
          LoginLookup(p, ip, email, password)
    \/ \E p \in Procs : LoginInsert(p)
    \/ \E p \in Procs, token \in AccessInputs : DeleteDeactivate(p, token)
    \/ \E p \in Procs : DeleteInvalidate(p)
    \/ \E ip \in Ips, token \in RefreshInputs : nreq < MaxEqRequests /\ Refresh(ip, token)
    \/ \E token \in RefreshInputs : ServiceRefresh(token)

SpecRefreshEq == InitRegistered /\ [][NextRefreshEq]_vars

\* the secrets of the valid rows
ValidSecrets(ss) == {ss[i].refresh_token : i \in {j \in Ids(ss) : ss[j].is_valid = 1}}

\* C38: on every state and every refresh token the /auth/refresh handler and
\* AuthService.refresh_tokens give the same outcome and leave the same valid session rows.
C38_RouteEqualsService ==
    [][ \A ip \in Ips, token \in RefreshInputs :
            Refresh(ip, token) =>
                /\ (IF resp'.status = 200 THEN "ok" ELSE resp'.detail)
                      = ServiceRefreshOutcome(token, users, sessions, now)
                /\ ValidSecrets(sessions')
                      = ValidSecrets(ServiceRefreshSessions(token, users, sessions, now, nonce + 1)) ]_vars

\* the two agree on the outcome everywhere, and on the rows wherever the user is active
C38_OutcomesAgree ==
    [][ \A ip \in Ips, token \in RefreshInputs :
            Refresh(ip, token) =>
                /\ (IF resp'.status = 200 THEN "ok" ELSE resp'.detail)
                      = ServiceRefreshOutcome(token, users, sessions, now)
                /\ resp'.detail # "User not found or inactive" =>
                      ValidSecrets(sessions')
                         = ValidSecrets(ServiceRefreshSessions(token, users, sessions, now, nonce + 1)) ]_vars

====
